---- MODULE Spec2Model ----
(***************************************************************************)
(* Model of MCP/gnosis-files.py: the fuzzy diff-patch engine (extraction,  *)
(* similarity, fuzzy location, application) and the versioned backup store *)
(* (snapshot, list, restore) with the write-through entry points.          *)
(*                                                                         *)
(* Text is a sequence of one-character strings.  Offsets into text are     *)
(* zero-based, as in the source; sequences are indexed from 1.             *)
(***************************************************************************)
EXTENDS Integers, Sequences, FiniteSets, TLC

(***************************************************************************)
(* Characters and string primitives (Python str methods used by the code). *)
(***************************************************************************)
NL == "\n"
SP == " "
TAB == "\t"
\* A character outside ASCII (e-acute); it cannot be encoded as "ascii".
NonAsciiChar == "U+00E9"
\* The grave accent of a code fence, named because the lexer reserves it.
Backtick == "U+0060"

Str1(c) == <<c>>

Min(a, b) == IF a <= b THEN a ELSE b
Max(a, b) == IF a >= b THEN a ELSE b

\* str.isspace for the characters of the model (what \s and strip() remove).
IsSpace(c) == c \in {SP, NL, TAB}

LowerLetters ==
  <<"a", "b", "c", "d", "e", "f", "g", "h", "i", "j", "k", "l", "m",
    "n", "o", "p", "q", "r", "s", "t", "u", "v", "w", "x", "y", "z">>
UpperLetters ==
  <<"A", "B", "C", "D", "E", "F", "G", "H", "I", "J", "K", "L", "M",
    "N", "O", "P", "Q", "R", "S", "T", "U", "V", "W", "X", "Y", "Z">>
DigitChars == <<"0", "1", "2", "3", "4", "5", "6", "7", "8", "9">>

IndexIn(seq, c) == IF \E i \in 1..Len(seq) : seq[i] = c
                   THEN CHOOSE i \in 1..Len(seq) : seq[i] = c
                   ELSE 0

\* Code points (ord), for the order of sorted() and the classes of re.
Ord(c) ==
  IF IndexIn(LowerLetters, c) > 0 THEN 96 + IndexIn(LowerLetters, c)
  ELSE IF IndexIn(UpperLetters, c) > 0 THEN 64 + IndexIn(UpperLetters, c)
  ELSE IF IndexIn(DigitChars, c) > 0 THEN 47 + IndexIn(DigitChars, c)
  ELSE CASE c = TAB -> 9
         [] c = NL -> 10
         [] c = SP -> 32
         [] c = "!" -> 33
         [] c = "+" -> 43
         [] c = "," -> 44
         [] c = "-" -> 45
         [] c = "." -> 46
         [] c = "/" -> 47
         [] c = "<" -> 60
         [] c = "=" -> 61
         [] c = ">" -> 62
         [] c = "@" -> 64
         [] c = "_" -> 95
         [] c = Backtick -> 96
         [] c = NonAsciiChar -> 233
         [] OTHER -> 1000

\* str.lower, character by character.
UpperSet == { UpperLetters[i] : i \in 1..26 }

LowerChar(c) ==
  IF c \in UpperSet THEN LowerLetters[IndexIn(UpperLetters, c)] ELSE c

Lower(s) == [i \in 1..Len(s) |-> LowerChar(s[i])]

\* \w of the re module: letters, digits and underscore.
WordChars ==
  { LowerLetters[i] : i \in 1..26 } \cup { UpperLetters[i] : i \in 1..26 }
  \cup { DigitChars[i] : i \in 1..10 } \cup { "_", NonAsciiChar }

IsWordChar(c) == c \in WordChars

\* s[lo:hi] with zero-based, half-open bounds already clipped to the string.
Slice(s, lo, hi) == IF hi <= lo THEN <<>> ELSE SubSeq(s, lo + 1, hi)

\* s.startswith(t, at): t occurs in s at zero-based offset at.
StartsAt(s, t, at) ==
  /\ at >= 0
  /\ at + Len(t) <= Len(s)
  /\ \A k \in 1..Len(t) : s[at + k] = t[k]

\* s.find(t, from): least zero-based offset >= from where t occurs, else -1.
Find(s, t, from) ==
  LET hits == { i \in from..(Len(s) - Len(t)) : StartsAt(s, t, i) }
  IN IF hits = {} THEN -1
     ELSE CHOOSE i \in hits : \A j \in hits : i <= j

\* t in s
Contains(s, t) == Find(s, t, 0) >= 0

\* A test that never sees the final newline.
NeverEndsWithNL(s) == FALSE

EndsWithNL(s) == Len(s) > 0 /\ s[Len(s)] = NL

\* s.count(t): non-overlapping occurrences, left to right.
RECURSIVE CountFrom(_, _, _)
CountFrom(s, t, from) ==
  IF Len(t) = 0 THEN Len(s) - from + 1
  ELSE LET i == Find(s, t, from)
       IN IF i < 0 THEN 0 ELSE 1 + CountFrom(s, t, i + Len(t))

Count(s, t) == CountFrom(s, t, 0)

\* s.replace(old, new, count); count < 0 means every occurrence.
RECURSIVE ReplaceFrom(_, _, _, _, _)
ReplaceFrom(s, old, new, count, from) ==
  IF count = 0 THEN Slice(s, from, Len(s))
  ELSE IF Len(old) = 0
    THEN IF from >= Len(s) THEN new
         ELSE new \o <<s[from + 1]>> \o
              (IF count = 1 THEN Slice(s, from + 1, Len(s))
               ELSE ReplaceFrom(s, old, new, count - 1, from + 1))
  ELSE LET i == Find(s, old, from)
       IN IF i < 0 THEN Slice(s, from, Len(s))
          ELSE Slice(s, from, i) \o new \o
               ReplaceFrom(s, old, new, count - 1, i + Len(old))

\* A replacement of every occurrence, whatever the count.
ReplaceEvery(s, old, new, count) == ReplaceFrom(s, old, new, 0 - 1, 0)

Replace(s, old, new, count) == ReplaceFrom(s, old, new, count, 0)

\* s.strip()
RECURSIVE LStripLen(_, _)
LStripLen(s, i) ==
  IF i < Len(s) /\ IsSpace(s[i + 1]) THEN LStripLen(s, i + 1) ELSE i

RECURSIVE RStripLen(_, _)
RStripLen(s, j) ==
  IF j > 0 /\ IsSpace(s[j]) THEN RStripLen(s, j - 1) ELSE j

Strip(s) ==
  LET lo == LStripLen(s, 0)
      hi == RStripLen(s, Len(s))
  IN Slice(s, lo, hi)

\* s.split("\n"): the lines of s, always at least one.
RECURSIVE SplitLinesFrom(_, _)
SplitLinesFrom(s, from) ==
  LET i == Find(s, <<NL>>, from)
  IN IF i < 0 THEN << Slice(s, from, Len(s)) >>
     ELSE << Slice(s, from, i) >> \o SplitLinesFrom(s, i + 1)

SplitLines(s) == SplitLinesFrom(s, 0)

\* sep.join(parts)
RECURSIVE Join(_, _)
Join(sep, parts) ==
  IF Len(parts) = 0 THEN <<>>
  ELSE IF Len(parts) = 1 THEN parts[1]
  ELSE parts[1] \o sep \o Join(sep, Tail(parts))

\* s.split(): maximal runs of non-whitespace.
RECURSIVE TokenEnd(_, _)
TokenEnd(s, i) ==
  IF i < Len(s) /\ ~IsSpace(s[i + 1]) THEN TokenEnd(s, i + 1) ELSE i

RECURSIVE SplitWsFrom(_, _)
SplitWsFrom(s, from) ==
  LET lo == LStripLen(s, from)
  IN IF lo >= Len(s) THEN <<>>
     ELSE LET hi == TokenEnd(s, lo)
          IN << Slice(s, lo, hi) >> \o SplitWsFrom(s, hi)

SplitWs(s) == SplitWsFrom(s, 0)

\* re.sub(r"\s+", " ", s): every whitespace run becomes one space.
RECURSIVE CollapseWsFrom(_, _)
CollapseWsFrom(s, from) ==
  IF from >= Len(s) THEN <<>>
  ELSE IF IsSpace(s[from + 1])
    THEN <<SP>> \o CollapseWsFrom(s, LStripLen(s, from))
    ELSE <<s[from + 1]>> \o CollapseWsFrom(s, from + 1)

CollapseWs(s) == CollapseWsFrom(s, 0)

\* Python's order on strings: by code point, a proper prefix first.
RECURSIVE StrLess(_, _)
StrLess(s, t) ==
  IF Len(t) = 0 THEN FALSE
  ELSE IF Len(s) = 0 THEN TRUE
  ELSE IF Ord(s[1]) < Ord(t[1]) THEN TRUE
  ELSE IF Ord(s[1]) > Ord(t[1]) THEN FALSE
  ELSE StrLess(Tail(s), Tail(t))

\* sorted(tokens): insertion into an ascending list, equal keys kept in order.
RECURSIVE InsertSorted(_, _)
InsertSorted(x, sorted) ==
  IF Len(sorted) = 0 THEN <<x>>
  ELSE IF StrLess(x, sorted[1]) THEN <<x>> \o sorted
  ELSE <<sorted[1]>> \o InsertSorted(x, Tail(sorted))

RECURSIVE SortTokens(_)
SortTokens(toks) ==
  IF Len(toks) = 0 THEN <<>>
  ELSE InsertSorted(toks[Len(toks)], SortTokens(SubSeq(toks, 1, Len(toks) - 1)))

(***************************************************************************)
(* Similarity Engine.  A similarity is the exact fraction n/d of the float *)
(* the code computes; every comparison the code makes between two such     *)
(* floats agrees with the comparison of the fractions (the quotients are   *)
(* correctly rounded and distinct fractions of these sizes differ by far   *)
(* more than one unit in the last place).                                  *)
(***************************************************************************)
Frac(n, d) == [n |-> n, d |-> d]
One == Frac(1, 1)
Zero == Frac(0, 1)
FracGeq(x, y) == x.n * y.d >= y.n * x.d
FracGt(x, y) == x.n * y.d > y.n * x.d
FracEq(x, y) == x.n * y.d = y.n * x.d

\* Length of the common run of a from ai and b from bj (zero-based), inside
\* the windows a[..ahi) and b[..bhi).
RECURSIVE RunLen(_, _, _, _, _, _)
RunLen(a, b, ai, bj, ahi, bhi) ==
  IF ai < ahi /\ bj < bhi /\ a[ai + 1] = b[bj + 1]
  THEN 1 + RunLen(a, b, ai + 1, bj + 1, ahi, bhi)
  ELSE 0

\* difflib.SequenceMatcher.find_longest_match without junk (autojunk only
\* acts on sequences of 200 elements or more): the longest block, the one
\* starting earliest in a and then earliest in b among the longest.
find_longest_match(a, b, alo, ahi, blo, bhi) ==
  LET cells == { <<i, j>> \in (alo..(ahi - 1)) \X (blo..(bhi - 1)) : a[i + 1] = b[j + 1] }
      size(c) == RunLen(a, b, c[1], c[2], ahi, bhi)
      best == IF cells = {} THEN 0
              ELSE CHOOSE k \in 1..Min(ahi - alo, bhi - blo) :
                     /\ \E c \in cells : size(c) = k
                     /\ \A c \in cells : size(c) <= k
      longest == { c \in cells : size(c) = best }
      bi == CHOOSE i \in alo..ahi :
              /\ \E c \in longest : c[1] = i
              /\ \A c \in longest : c[1] >= i
      bj == CHOOSE j \in blo..bhi :
              /\ <<bi, j>> \in longest
              /\ \A c \in longest : c[1] = bi => c[2] >= j
  IN IF best = 0 THEN [i |-> alo, j |-> blo, size |-> 0]
     ELSE [i |-> bi, j |-> bj, size |-> best]

\* Sum of the sizes of difflib's matching blocks: the longest block, then
\* the same to its left and to its right.
RECURSIVE MatchTotal(_, _, _, _, _, _), MatchTotalAround(_, _, _, _, _, _, _)
MatchTotal(a, b, alo, ahi, blo, bhi) ==
  IF alo >= ahi \/ blo >= bhi THEN 0
  ELSE MatchTotalAround(a, b, alo, ahi, blo, bhi,
                        find_longest_match(a, b, alo, ahi, blo, bhi))

\* The block m and the blocks found to its left and to its right.
MatchTotalAround(a, b, alo, ahi, blo, bhi, m) ==
  IF m.size = 0 THEN 0
  ELSE m.size
       + MatchTotal(a, b, alo, m.i, blo, m.j)
       + MatchTotal(a, b, m.i + m.size, ahi, m.j + m.size, bhi)

\* difflib.SequenceMatcher(None, a, b).ratio()
SeqRatio(a, b) ==
  IF Len(a) + Len(b) = 0 THEN One
  ELSE Frac(2 * MatchTotal(a, b, 0, Len(a), 0, Len(b)), Len(a) + Len(b))

\* set(s.lower().split())
TokenSet(s) == LET t == SplitWs(Lower(s)) IN { t[i] : i \in 1..Len(t) }

normalize_whitespace(text) ==
  LET lines == SplitLines(text)
  IN Join(<<NL>>, [i \in 1..Len(lines) |-> CollapseWs(Strip(lines[i]))])

\* A token_set score that divides by the size of the first set.
SimilarityOverFirst(a, b, method) ==
  IF Len(a) = 0 /\ Len(b) = 0 THEN One
  ELSE IF Len(a) = 0 \/ Len(b) = 0 THEN Zero
  ELSE IF method = "token_set"
    THEN IF TokenSet(a) = {} /\ TokenSet(b) = {} THEN One
         ELSE IF TokenSet(a) = {} \/ TokenSet(b) = {} THEN Zero
         ELSE Frac(Cardinality(TokenSet(a) \cap TokenSet(b)), Cardinality(TokenSet(a)))
  ELSE IF method = "token_sort"
    THEN SeqRatio(Join(<<SP>>, SortTokens(SplitWs(Lower(a)))),
                  Join(<<SP>>, SortTokens(SplitWs(Lower(b)))))
  ELSE SeqRatio(a, b)

calculate_similarity(a, b, method) ==
  IF Len(a) = 0 /\ Len(b) = 0 THEN One
  ELSE IF Len(a) = 0 \/ Len(b) = 0 THEN Zero
  ELSE IF method = "ratio" THEN SeqRatio(a, b)
  ELSE IF method = "token_sort"
    THEN SeqRatio(Join(<<SP>>, SortTokens(SplitWs(Lower(a)))),
                  Join(<<SP>>, SortTokens(SplitWs(Lower(b)))))
  ELSE IF method = "token_set"
    THEN LET ta == TokenSet(a)
             tb == TokenSet(b)
         IN IF ta = {} /\ tb = {} THEN One
            ELSE IF ta = {} \/ tb = {} THEN Zero
            ELSE Frac(Cardinality(ta \cap tb), Max(Cardinality(ta), Cardinality(tb)))
  ELSE SeqRatio(a, b)

(***************************************************************************)
(* Fuzzy Match Locator.                                                    *)
(***************************************************************************)
DefaultThreshold == Frac(4, 5)

\* max(0.6, similarity_threshold - 0.2) as the floats give it: the float
\* 0.8 - 0.2 is 0.6000000000000001, just above the float 0.6 that a ratio of
\* exactly 3/5 rounds to, so for the threshold 0.8 the floor is exclusive;
\* for the other thresholds of the model the difference is the float of the
\* exact fraction or just below it.
SingleLineFloor(threshold) ==
  LET diff == Frac(5 * threshold.n - threshold.d, 5 * threshold.d)
      floor == IF FracGeq(Frac(3, 5), diff) THEN Frac(3, 5) ELSE diff
  IN [floor |-> floor, exclusive |-> FracEq(threshold, Frac(4, 5))]

\* A single-line strategy without a floor.
ClearsAnyFloor(sim, threshold) == TRUE

ClearsFloor(sim, threshold) ==
  LET f == SingleLineFloor(threshold)
  IN IF f.exclusive THEN FracGt(sim, f.floor) ELSE FracGeq(sim, f.floor)

Candidate(text, sim, start, end, kind, strategy) ==
  [text |-> text, similarity |-> sim, start_pos |-> start, end_pos |-> end,
   match_type |-> kind, strategy |-> strategy]

\* sum(len(x) + 1 for x in c_lines[:i])
RECURSIVE LineOffset(_, _)
LineOffset(c_lines, i) ==
  IF i = 0 THEN 0 ELSE Len(c_lines[i]) + 1 + LineOffset(c_lines, i - 1)

StripEach(lines) == [i \in 1..Len(lines) |-> Strip(lines[i])]

NonBlank(lines) == SelectSeq(lines, LAMBDA ln : Len(ln) > 0)

NormalizedCandidate(ns, nc, stripped, start) ==
  IF Contains(nc, ns) /\ start >= 0
  THEN << Candidate(stripped, Frac(19, 20), start, start + Len(stripped),
                    "normalized", "normalized") >>
  ELSE <<>>

NormalizedMatchesOf(search_text, content, stripped) ==
  NormalizedCandidate(normalize_whitespace(search_text),
                      normalize_whitespace(content), stripped,
                      Find(Lower(content), Lower(stripped), 0))

NormalizedMatches(search_text, content) ==
  NormalizedMatchesOf(search_text, content, Strip(search_text))

\* The candidate of one window, kept when its similarity reaches the threshold.
WindowCandidate(text, sim, start_pos, threshold) ==
  IF FracGeq(sim, threshold)
  THEN << Candidate(text, sim, start_pos, start_pos + Len(text),
                    "fuzzy_multiline", "multiline") >>
  ELSE <<>>

\* The window of s_len lines that starts after line i.
MultilineWindow(s_lines, c_lines, threshold, i, window) ==
  WindowCandidate(Join(<<NL>>, window),
                  calculate_similarity(Join(<<NL>>, s_lines),
                                       Join(<<NL>>, StripEach(window)), "ratio"),
                  LineOffset(c_lines, i), threshold)

\* The windows i = from .. last of the sliding window, top to bottom.
RECURSIVE MultilineWindows(_, _, _, _, _)
MultilineWindows(s_lines, c_lines, threshold, i, last) ==
  IF i > last THEN <<>>
  ELSE MultilineWindow(s_lines, c_lines, threshold, i,
                       SubSeq(c_lines, i + 1, i + Len(s_lines)))
       \o MultilineWindows(s_lines, c_lines, threshold, i + 1, last)

SlideWindows(s_lines, c_lines, threshold) ==
  IF Len(s_lines) = 0 THEN <<>>
  ELSE MultilineWindows(s_lines, c_lines, threshold, 0, Len(c_lines) - Len(s_lines))

MultilineMatches(search_text, content, threshold) ==
  SlideWindows(NonBlank(StripEach(SplitLines(Strip(search_text)))),
               SplitLines(content), threshold)

\* The best line so far after lines 1..idx: a later line replaces it only
\* with a strictly greater ratio.
BetterLine(before, ln, sim, start_pos, threshold) ==
  IF ClearsFloor(sim, threshold)
     /\ (Len(before) = 0 \/ FracGt(sim, before[1].similarity))
  THEN << Candidate(ln, sim, start_pos, start_pos + Len(ln),
                    "fuzzy_single_line", "single_line") >>
  ELSE before

RECURSIVE BestLine(_, _, _, _)
BestLine(target, c_lines, threshold, idx) ==
  IF idx = 0 THEN <<>>
  ELSE BetterLine(BestLine(target, c_lines, threshold, idx - 1), c_lines[idx],
                  SeqRatio(target, Strip(c_lines[idx])),
                  LineOffset(c_lines, idx - 1), threshold)

BestLineOf(target, c_lines, threshold) ==
  BestLine(target, c_lines, threshold, Len(c_lines))

SingleLineMatches(search_text, content, threshold) ==
  BestLineOf(Strip(search_text), SplitLines(content), threshold)

\* content.lower().find(search_text.strip().lower()), else the position of
\* the first three words of the search text.
TokenStart(content, stripped, toks, whole) ==
  IF whole >= 0 THEN whole
  ELSE Find(Lower(content),
            Lower(Join(<<SP>>, SubSeq(toks, 1, Min(3, Len(toks))))), 0)

TokenCandidate(search_text, sim, start, length, threshold) ==
  IF FracGeq(sim, threshold) /\ start >= 0
  THEN << Candidate(search_text, sim, start, start + length,
                    "token_based", "token") >>
  ELSE <<>>

TokenMatchesOf(search_text, content, stripped, threshold) ==
  TokenCandidate(search_text,
                 calculate_similarity(search_text, content, "token_sort"),
                 TokenStart(content, stripped, SplitWs(stripped),
                            Find(Lower(content), Lower(stripped), 0)),
                 Len(stripped), threshold)

TokenMatches(search_text, content, threshold) ==
  TokenMatchesOf(search_text, content, Strip(search_text), threshold)

\* An insertion that puts a later candidate before its equals.
RECURSIVE InsertBeforeEquals(_, _)
InsertBeforeEquals(x, sorted) ==
  IF Len(sorted) = 0 THEN <<x>>
  ELSE IF FracGeq(x.similarity, sorted[1].similarity) THEN <<x>> \o sorted
  ELSE <<sorted[1]>> \o InsertBeforeEquals(x, Tail(sorted))

\* list.sort(key=similarity, reverse=True): stable, equal keys keep their order.
RECURSIVE InsertBySimilarity(_, _)
InsertBySimilarity(x, sorted) ==
  IF Len(sorted) = 0 THEN <<x>>
  ELSE IF FracGt(x.similarity, sorted[1].similarity) THEN <<x>> \o sorted
  ELSE <<sorted[1]>> \o InsertBySimilarity(x, Tail(sorted))

RECURSIVE SortBySimilarity(_)
SortBySimilarity(ms) ==
  IF Len(ms) = 0 THEN <<>>
  ELSE InsertBySimilarity(ms[Len(ms)], SortBySimilarity(SubSeq(ms, 1, Len(ms) - 1)))

AllMethods == {"exact", "normalized", "multiline", "single_line", "token"}

\* The candidate of the exact strategy, at the first occurrence.
ExactMatch(search_text, start) ==
  << Candidate(search_text, One, start, start + Len(search_text), "exact", "exact") >>

\* The candidates of the strategies after exact, sorted.
FuzzyMatches(search_text, content, similarity_threshold, methods) ==
  SortBySimilarity(
    (IF "normalized" \in methods
     THEN NormalizedMatches(search_text, content) ELSE <<>>)
    \o (IF "multiline" \in methods /\ Contains(search_text, <<NL>>)
        THEN MultilineMatches(search_text, content, similarity_threshold)
        ELSE <<>>)
    \o (IF "single_line" \in methods /\ ~Contains(search_text, <<NL>>)
        THEN SingleLineMatches(search_text, content, similarity_threshold)
        ELSE <<>>)
    \o (IF "token" \in methods
        THEN TokenMatches(search_text, content, similarity_threshold)
        ELSE <<>>))

\* A locator that goes on to the other strategies after an exact hit.
LocateWithoutShortCircuit(search_text, content, similarity_threshold, methods) ==
  IF "exact" \in methods /\ Contains(content, search_text)
  THEN ExactMatch(search_text, Find(content, search_text, 0))
       \o FuzzyMatches(search_text, content, similarity_threshold, methods)
  ELSE FuzzyMatches(search_text, content, similarity_threshold, methods)

find_fuzzy_matches(search_text, content, similarity_threshold, methods) ==
  IF "exact" \in methods /\ Contains(content, search_text)
  THEN ExactMatch(search_text, Find(content, search_text, 0))
  ELSE FuzzyMatches(search_text, content, similarity_threshold, methods)

(***************************************************************************)
(* Diff Block Extractor.  The six dialect patterns are sequences of regex  *)
(* elements, matched as re.findall with re.DOTALL matches them: leftmost   *)
(* start, greedy \s* longest first, lazy (.*?) shortest first.             *)
(***************************************************************************)
Chars(str, n) == [i \in 1..n |-> str[i]]

Lit(s) == [t |-> "lit", s |-> s]
WsStar == [t |-> "ws", s |-> <<>>]
LazyGroup == [t |-> "lazy", s |-> <<>>]
LazySkip == [t |-> "skip", s |-> <<>>]
GitEnd == [t |-> "gitend", s |-> <<>>]

Lt3 == <<"<", "<", "<">>
Gt3 == <<">", ">", ">">>
Lt7 == <<"<", "<", "<", "<", "<", "<", "<">>
Gt7 == <<">", ">", ">", ">", ">", ">", ">">>
Eq7 == <<"=", "=", "=", "=", "=", "=", "=">>
Fence == <<Backtick, Backtick, Backtick>>
DiffWord == <<"d", "i", "f", "f">>
SearchWord == <<"S", "E", "A", "R", "C", "H">>
ReplaceWord == <<"R", "E", "P", "L", "A", "C", "E">>
CustomWord == <<"C", "U", "S", "T", "O", "M">>
EndWord == <<"E", "N", "D">>

SearchMarker == Lt7 \o <<SP>> \o SearchWord \o <<NL>>
ReplaceMarker == Gt7 \o <<SP>> \o ReplaceWord
CustomSearchMarker == Lt3 \o CustomWord \o <<"_">> \o SearchWord \o Gt3
CustomReplaceMarker == Lt3 \o CustomWord \o <<"_">> \o ReplaceWord \o Gt3
CustomEndMarker == Lt3 \o EndWord \o <<"_">> \o CustomWord \o Gt3
GitOldHeader == <<"-", "-", "-", SP, "a", "/">>
GitNewHeader == <<"+", "+", "+", SP, "b", "/">>

DIFF_PATTERNS ==
  [custom_safe |->
     << Lit(CustomSearchMarker \o <<NL>>), LazyGroup,
        Lit(<<NL>> \o CustomReplaceMarker \o <<NL>>), LazyGroup,
        Lit(<<NL>> \o CustomEndMarker) >>,
   toolkami_fenced |->
     << Lit(Fence \o DiffWord), WsStar, Lit(<<NL>>), LazyGroup,
        Lit(<<NL>> \o SearchMarker), LazyGroup, Lit(Eq7 \o <<NL>>), LazyGroup,
        Lit(ReplaceMarker \o <<NL>> \o Fence) >>,
   toolkami_direct |->
     << LazyGroup, Lit(<<NL>> \o SearchMarker), LazyGroup, Lit(Eq7 \o <<NL>>),
        LazyGroup, Lit(ReplaceMarker) >>,
   simple_blocks |->
     << Lit(SearchMarker), LazyGroup, Lit(Eq7 \o <<NL>>), LazyGroup,
        Lit(ReplaceMarker) >>,
   evolvemcp_style |->
     << Lit(Fence \o DiffWord \o <<NL>>), LazyGroup, Lit(SearchMarker), LazyGroup,
        Lit(Eq7 \o <<NL>>), LazyGroup, Lit(ReplaceMarker \o <<NL>> \o Fence) >>,
   git_style |->
     << Lit(GitOldHeader), LazyGroup, Lit(<<NL>> \o GitNewHeader), LazySkip,
        Lit(<<NL, "@", "@", SP>>), LazySkip, Lit(<<SP, "@", "@">>), LazySkip,
        Lit(<<NL>>), LazyGroup, GitEnd >>]

NoMatch == [ok |-> FALSE, end |-> 0, caps |-> <<>>]

\* (?=\n--- a/|$): the next hunk header follows, or the text ends here, or
\* only its final newline is left.
GitEndHolds(text, pos) ==
  \/ StartsAt(text, <<NL>> \o GitOldHeader, pos)
  \/ pos = Len(text)
  \/ (pos = Len(text) - 1 /\ text[Len(text)] = NL)

\* Length of the whitespace run at pos.
WsRun(text, pos) == LStripLen(text, pos) - pos

\* The first match of pat[k..] at pos in backtracking order, with the texts
\* of its capturing groups.
RECURSIVE MatchAt(_, _, _, _), TryWs(_, _, _, _, _), TryLazy(_, _, _, _, _)
MatchAt(pat, k, text, pos) ==
  IF k > Len(pat) THEN [ok |-> TRUE, end |-> pos, caps |-> <<>>]
  ELSE IF pat[k].t = "lit"
    THEN IF StartsAt(text, pat[k].s, pos)
         THEN MatchAt(pat, k + 1, text, pos + Len(pat[k].s))
         ELSE NoMatch
  ELSE IF pat[k].t = "ws" THEN TryWs(pat, k, text, pos, WsRun(text, pos))
  ELSE IF pat[k].t = "gitend"
    THEN IF GitEndHolds(text, pos) THEN MatchAt(pat, k + 1, text, pos) ELSE NoMatch
  ELSE TryLazy(pat, k, text, pos, 0)

TryWs(pat, k, text, pos, n) ==
  LET r == MatchAt(pat, k + 1, text, pos + n)
  IN IF r.ok THEN r
     ELSE IF n = 0 THEN NoMatch
     ELSE TryWs(pat, k, text, pos, n - 1)

\* A lazy group tries the lengths n, n+1, ...; before a literal or the
\* lookahead only the lengths that end where that element holds can succeed.
TryLazy(pat, k, text, pos, n) ==
  LET ends == { q \in (pos + n)..Len(text) : GitEndHolds(text, q) }
      next == IF k < Len(pat) /\ pat[k + 1].t = "lit"
              THEN Find(text, pat[k + 1].s, pos + n)
              ELSE IF k < Len(pat) /\ pat[k + 1].t = "gitend"
              THEN IF ends = {} THEN -1
                   ELSE CHOOSE q \in ends : \A q2 \in ends : q <= q2
              ELSE IF pos + n <= Len(text) THEN pos + n ELSE -1
  IN IF next < 0 THEN NoMatch
     ELSE LET r == MatchAt(pat, k + 1, text, next)
          IN IF r.ok
             THEN IF pat[k].t = "lazy"
                  THEN [r EXCEPT !.caps = << Slice(text, pos, next) >> \o r.caps]
                  ELSE r
             ELSE TryLazy(pat, k, text, pos, next - pos + 1)

\* re.findall(pattern, text, re.DOTALL): the group tuples of the successive
\* non-overlapping matches.  A match can only start where a leading literal
\* occurs; a pattern that starts with a lazy group matches at the scan
\* position whenever it matches at any later start, the group taking up the
\* text in between.
RECURSIVE FindAll(_, _, _)
FindAll(pat, text, pos) ==
  LET start == IF pat[1].t = "lit" THEN Find(text, pat[1].s, pos)
               ELSE IF pos <= Len(text) THEN pos ELSE -1
  IN IF start < 0 THEN <<>>
     ELSE LET r == MatchAt(pat, 1, text, start)
          IN IF r.ok
             THEN << r.caps >> \o
                  FindAll(pat, text, IF r.end > start THEN r.end ELSE start + 1)
             ELSE IF pat[1].t = "lit" THEN FindAll(pat, text, start + 1)
             ELSE <<>>

\* str.splitlines() for text whose only line break is the newline.
Splitlines(s) ==
  LET lines == SplitLines(s)
  IN IF Len(lines[Len(lines)]) = 0 THEN SubSeq(lines, 1, Len(lines) - 1) ELSE lines

NoHint == <<>>

DiffBlock(search, replace, method, hint) ==
  [search |-> search, replace |-> replace, method |-> method, filename_hint |-> hint]

\* The search side of a unified-diff hunk: removed and context lines.
GitSearchLines(lines) ==
  LET kept == SelectSeq(lines, LAMBDA ln : ~(Len(ln) > 0 /\ ln[1] = "+"))
  IN [i \in 1..Len(kept) |->
        IF Len(kept[i]) > 0 /\ kept[i][1] = "-" THEN Tail(kept[i]) ELSE kept[i]]

\* The replace side: added and context lines.
GitReplaceLines(lines) ==
  LET kept == SelectSeq(lines, LAMBDA ln : ~(Len(ln) > 0 /\ ln[1] = "-"))
  IN [i \in 1..Len(kept) |->
        IF Len(kept[i]) > 0 /\ kept[i][1] = "+" THEN Tail(kept[i]) ELSE kept[i]]

CustomBlocks(custom) ==
  [i \in 1..Len(custom) |->
     DiffBlock(custom[i][1], custom[i][2], "custom_safe", NoHint)]

FencedBlocks(fenced) ==
  [i \in 1..Len(fenced) |->
     DiffBlock(fenced[i][2], fenced[i][3], "toolkami_fenced",
               << Strip(fenced[i][1]) >>)]

DirectBlocks(direct) ==
  [i \in 1..Len(direct) |->
     DiffBlock(direct[i][2], direct[i][3], "toolkami_direct",
               << Strip(direct[i][1]) >>)]

SimpleBlocks(simple) ==
  [i \in 1..Len(simple) |->
     DiffBlock(simple[i][1], simple[i][2], "simple_blocks", NoHint)]

EvolveBlocks(evolve) ==
  [i \in 1..Len(evolve) |->
     DiffBlock(evolve[i][2], evolve[i][3], "evolvemcp_style", NoHint)]

GitBlock(hint, lines) ==
  DiffBlock(Join(<<NL>>, GitSearchLines(lines)),
            Join(<<NL>>, GitReplaceLines(lines)),
            "git_style", << Strip(hint) >>)

GitBlocks(git) ==
  [i \in 1..Len(git) |-> GitBlock(git[i][1], Splitlines(git[i][2]))]

\* A priority order that tries the bare markers before the fenced and the
\* filename-led dialects.
FirstDialectBareFirst(custom, fenced, direct, simple, evolve, git) ==
  IF Len(custom) > 0 THEN CustomBlocks(custom)
  ELSE IF Len(simple) > 0 THEN SimpleBlocks(simple)
  ELSE IF Len(fenced) > 0 THEN FencedBlocks(fenced)
  ELSE IF Len(direct) > 0 THEN DirectBlocks(direct)
  ELSE IF Len(evolve) > 0 THEN EvolveBlocks(evolve)
  ELSE GitBlocks(git)

\* The blocks of the first dialect, in the order of DIFF_PATTERNS, that
\* matches anywhere in the text.
FirstDialect(custom, fenced, direct, simple, evolve, git) ==
  IF Len(custom) > 0 THEN CustomBlocks(custom)
  ELSE IF Len(fenced) > 0 THEN FencedBlocks(fenced)
  ELSE IF Len(direct) > 0 THEN DirectBlocks(direct)
  ELSE IF Len(simple) > 0 THEN SimpleBlocks(simple)
  ELSE IF Len(evolve) > 0 THEN EvolveBlocks(evolve)
  ELSE GitBlocks(git)

extract_diff_blocks(diff_text) ==
  FirstDialect(FindAll(DIFF_PATTERNS.custom_safe, diff_text, 0),
               FindAll(DIFF_PATTERNS.toolkami_fenced, diff_text, 0),
               FindAll(DIFF_PATTERNS.toolkami_direct, diff_text, 0),
               FindAll(DIFF_PATTERNS.simple_blocks, diff_text, 0),
               FindAll(DIFF_PATTERNS.evolvemcp_style, diff_text, 0),
               FindAll(DIFF_PATTERNS.git_style, diff_text, 0))

(***************************************************************************)
(* Patch Application Engine.                                               *)
(***************************************************************************)
NoError == "none"

\* str.replace(match_text, replace_text) for replace_all, else with count 1.
ReplaceAllCount == -1

\* The first min(3, ...) entries kept as debug["match_details"].
TopMatches(matches) == SubSeq(matches, 1, Min(3, Len(matches)))

\* An edit that replaces one occurrence, whatever replace_all says.
ReplaceMatchOnce(original_text, match_text, replace_text, replace_all, literal, matches) ==
  [text |-> Replace(original_text, match_text, replace_text, 1),
   ok |-> TRUE,
   debug |-> [matches_found |-> Len(matches),
              match_details |-> TopMatches(matches),
              success |-> TRUE, replaced_count |-> 1,
              error |-> NoError, match_type |-> matches[1].match_type]]

\* The edit that replaces match_text, an occurrence of which is literal.
ReplaceMatch(original_text, match_text, replace_text, replace_all, literal, matches) ==
  [text |-> IF replace_all /\ literal
            THEN Replace(original_text, match_text, replace_text, ReplaceAllCount)
            ELSE Replace(original_text, match_text, replace_text, 1),
   ok |-> TRUE,
   debug |-> [matches_found |-> Len(matches),
              match_details |-> TopMatches(matches),
              success |-> TRUE,
              replaced_count |-> IF replace_all /\ literal
                                 THEN Max(1, Count(original_text, match_text))
                                 ELSE 1,
              error |-> NoError, match_type |-> matches[1].match_type]]

ReplaceBest(original_text, match_text, replace_text, replace_all, matches) ==
  ReplaceMatch(original_text, match_text, replace_text, replace_all,
               Contains(original_text, match_text), matches)

\* An edit that falls back to appending when nothing matches.
ApplyMatchesOrAppend(original_text, replace_text, replace_all, matches) ==
  IF Len(matches) = 0
  THEN [text |-> original_text \o replace_text,
        ok |-> TRUE,
        debug |-> [matches_found |-> 0, match_details |-> <<>>,
                   success |-> TRUE, replaced_count |-> 1,
                   error |-> NoError, match_type |-> "none"]]
  ELSE ReplaceBest(original_text, matches[1].text, replace_text, replace_all, matches)

ApplyMatches(original_text, replace_text, replace_all, matches) ==
  IF Len(matches) = 0
  THEN [text |-> original_text,
        ok |-> FALSE,
        debug |-> [matches_found |-> 0, match_details |-> <<>>,
                   success |-> FALSE, replaced_count |-> 0,
                   error |-> "no_matches_found", match_type |-> "none"]]
  ELSE ReplaceBest(original_text, matches[1].text, replace_text, replace_all, matches)

SearchMethods(allow_partial_matches) ==
  {"exact", "normalized"}
  \cup (IF allow_partial_matches THEN {"multiline", "single_line", "token"} ELSE {})

apply_diff_edit(original_text, search_text, replace_text, similarity_threshold, allow_partial_matches, replace_all) ==
  IF Len(Strip(search_text)) = 0
  THEN [text |-> original_text
                 \o (IF EndsWithNL(original_text) THEN <<>> ELSE <<NL>>)
                 \o replace_text,
        ok |-> TRUE,
        debug |-> [matches_found |-> 0, match_details |-> <<>>, success |-> TRUE,
                   replaced_count |-> 1, error |-> NoError,
                   match_type |-> "empty_search"]]
  ELSE ApplyMatches(original_text, replace_text, replace_all,
                    find_fuzzy_matches(search_text, original_text, similarity_threshold,
                                       SearchMethods(allow_partial_matches)))

\* A loop that never hands the edited text to the next block.
BlockAppliedToOriginal(before, blk, n, r) ==
  [text |-> before.text,
   changes |-> before.changes + (IF r.ok THEN Max(1, r.debug.replaced_count) ELSE 0),
   warnings |-> IF r.ok THEN before.warnings
                ELSE Append(before.warnings, [index |-> n, error |-> r.debug.error]),
   block_results |-> Append(before.block_results,
                            [index |-> n, success |-> r.ok, details |-> r.debug,
                             method |-> blk.method])]

\* The state of apply_diff_blocks after block n with the result r.
BlockApplied(before, blk, n, r) ==
  IF r.ok
  THEN [text |-> r.text,
        changes |-> before.changes + Max(1, r.debug.replaced_count),
        warnings |-> before.warnings,
        block_results |-> Append(before.block_results,
                                 [index |-> n, success |-> r.ok, details |-> r.debug,
                                  method |-> blk.method])]
  ELSE [text |-> before.text,
        changes |-> before.changes,
        warnings |-> Append(before.warnings, [index |-> n, error |-> r.debug.error]),
        block_results |-> Append(before.block_results,
                                 [index |-> n, success |-> r.ok, details |-> r.debug,
                                  method |-> blk.method])]

ApplyBlock(before, blk, n, similarity_threshold, allow_partial_matches, replace_all) ==
  BlockApplied(before, blk, n,
               apply_diff_edit(before.text, blk.search, blk.replace,
                               similarity_threshold, allow_partial_matches, replace_all))

\* The state of apply_diff_blocks after the first n blocks.
RECURSIVE ApplyBlocksUpTo(_, _, _, _, _, _)
ApplyBlocksUpTo(original_text, diff_blocks, similarity_threshold, allow_partial_matches, replace_all, n) ==
  IF n = 0
  THEN [text |-> original_text, changes |-> 0, warnings |-> <<>>,
        block_results |-> <<>>]
  ELSE ApplyBlock(ApplyBlocksUpTo(original_text, diff_blocks, similarity_threshold,
                                  allow_partial_matches, replace_all, n - 1),
                  diff_blocks[n], n, similarity_threshold, allow_partial_matches,
                  replace_all)

apply_diff_blocks(original_text, diff_blocks, similarity_threshold, allow_partial_matches, replace_all) ==
  ApplyBlocksUpTo(original_text, diff_blocks, similarity_threshold,
                  allow_partial_matches, replace_all, Len(diff_blocks))

(***************************************************************************)
(* Versioned Backup Store: archive file names.                             *)
(***************************************************************************)
DigitSet == { DigitChars[i] : i \in 1..10 }

IsDigit(c) == c \in DigitSet

DigitValue(c) == (CHOOSE i \in 1..10 : DigitChars[i] = c) - 1

\* The decimal digits of n, as an f-string formats an int.
RECURSIVE FormatInt(_)
FormatInt(n) ==
  IF n < 10 THEN << DigitChars[n + 1] >>
  ELSE FormatInt(n \div 10) \o << DigitChars[(n % 10) + 1] >>

\* int(digits)
RECURSIVE ParseInt(_)
ParseInt(digits) ==
  IF Len(digits) = 0 THEN 0
  ELSE 10 * ParseInt(SubSeq(digits, 1, Len(digits) - 1)) + DigitValue(digits[Len(digits)])

BackupSuffix == <<".", "b", "a", "c", "k", "u", "p">>
PreRestoreTag == <<"p", "r", "e", "_", "r", "e", "s", "t", "o", "r", "e">>
NoTag == <<>>

\* re.sub(r"[^\w\-_]", "_", change_tag)
SanitizeTag(tag) ==
  [i \in 1..Len(tag) |-> IF IsWordChar(tag[i]) \/ tag[i] = "-" THEN tag[i] ELSE "_"]

\* The name without the version number it should carry.
BackupFileNameSameVersion(vnum, ts, change_tag) ==
  <<"v", "1", "_">> \o FormatInt(ts)
  \o (IF Len(change_tag) > 0 THEN <<".">> \o SanitizeTag(change_tag) ELSE <<>>)
  \o BackupSuffix

\* f"v{vnum}_{ts}.{safe}.backup", or f"v{vnum}_{ts}.backup" for a falsy tag.
BackupFileName(vnum, ts, change_tag) ==
  <<"v">> \o FormatInt(vnum) \o <<"_">> \o FormatInt(ts)
  \o (IF Len(change_tag) > 0 THEN <<".">> \o SanitizeTag(change_tag) ELSE <<>>)
  \o BackupSuffix

IsTagChar(c) == IsWordChar(c) \/ c = "-"

\* Length of the run of digits (\d+) at zero-based pos.
RECURSIVE DigitRun(_, _)
DigitRun(s, pos) ==
  IF pos < Len(s) /\ IsDigit(s[pos + 1]) THEN 1 + DigitRun(s, pos + 1) ELSE 0

\* Length of the run of tag characters ([\w-]+) at zero-based pos.
RECURSIVE TagRun(_, _)
TagRun(s, pos) ==
  IF pos < Len(s) /\ IsTagChar(s[pos + 1]) THEN 1 + TagRun(s, pos + 1) ELSE 0

\* re.match(r"v(\d+)_(\d+)(\.[\w-]+)?\.backup", f): the optional tag group
\* is tried first and given up when ".backup" does not follow it.
ParseBackupName(f) ==
  LET d1 == DigitRun(f, 1)
      p1 == 1 + d1
      d2 == DigitRun(f, p1 + 1)
      p2 == p1 + 1 + d2
      tagrun == TagRun(f, p2 + 1)
      tagged == /\ StartsAt(f, <<".">>, p2)
                /\ tagrun >= 1
                /\ StartsAt(f, BackupSuffix, p2 + 1 + tagrun)
      head == /\ StartsAt(f, <<"v">>, 0)
              /\ d1 >= 1
              /\ StartsAt(f, <<"_">>, p1)
              /\ d2 >= 1
  IN IF head /\ tagged
     THEN [ok |-> TRUE, version |-> ParseInt(Slice(f, 1, p1)),
           timestamp |-> ParseInt(Slice(f, p1 + 1, p2)),
           tag |-> Slice(f, p2 + 1, p2 + 1 + tagrun)]
     ELSE IF head /\ StartsAt(f, BackupSuffix, p2)
     THEN [ok |-> TRUE, version |-> ParseInt(Slice(f, 1, p1)),
           timestamp |-> ParseInt(Slice(f, p1 + 1, p2)), tag |-> NoTag]
     ELSE [ok |-> FALSE, version |-> 0, timestamp |-> 0, tag |-> NoTag]

(***************************************************************************)
(* Versioned Backup Store and the write-through entry points, as           *)
(* processes that take the steps of one call in the order of the code.     *)
(***************************************************************************)
VARIABLES
  live,      \* the live file: [exists, content]
  archives,  \* the files of the per-file archive directory: [name, content]
  now,       \* int(time.time())
  pc,        \* pc[p]: where caller p is in its call
  frame,     \* frame[p]: arguments, locals and result of p's call
  taken,     \* history: the snapshots taken, [version, name, content], in order
  restored   \* history: the successful restore that has just returned

vars == <<live, archives, now, pc, frame, taken, restored>>

\* Bounds of the model.
MaxVersions == 4
MaxDocLen == 3

Procs == {1, 2}

None == <<>>
Some(x) == <<x>>

NoFile == [exists |-> FALSE, content |-> <<>>]
FileOf(content) == [exists |-> TRUE, content |-> content]

ArchiveFile(name, content) == [name |-> name, content |-> content]

\* The entries get_file_versions builds from the archive directory.
VersionEntry(f) ==
  LET m == ParseBackupName(f.name)
  IN [version |-> m.version, timestamp |-> m.timestamp, tag |-> m.tag,
      path |-> f.name, current |-> FALSE]

CurrentEntry == [version |-> 0, timestamp |-> 0, tag |-> NoTag,
                 path |-> <<>>, current |-> TRUE]

\* Every order versions.sort(key=version, reverse=True) can leave the
\* entries in: descending by version, entries of equal version in the
\* order os.listdir gave them, which is arbitrary.
RECURSIVE SortedListings(_)
SortedListings(entries) ==
  IF entries = {} THEN { <<>> }
  ELSE LET top == { e \in entries : \A o \in entries : o.version <= e.version }
       IN UNION { { <<e>> \o rest : rest \in SortedListings(entries \ {e}) } : e \in top }

\* The lists get_file_versions(file_path) can return.
get_file_versions(lv, arch) ==
  IF ~lv.exists THEN { <<>> }
  ELSE LET entries == { VersionEntry(f) : f \in { g \in arch : ParseBackupName(g.name).ok } }
       IN { <<CurrentEntry>> \o listing : listing \in SortedListings(entries) }

\* The historical entries, leaving out the backups restores took.
PastOfUntagged(versions) ==
  SelectSeq(versions, LAMBDA v : ~v.current /\ v.tag # PreRestoreTag)

PastOf(versions) == SelectSeq(versions, LAMBDA v : ~v.current)

VersionNumbers(entries) == [i \in 1..Len(entries) |-> entries[i].version]

\* The last number of the list, as if the list were ascending.
SeqLast(nums) == nums[Len(nums)]

SeqMax(nums) == CHOOSE m \in { nums[i] : i \in 1..Len(nums) } :
                  \A i \in 1..Len(nums) : nums[i] <= m

\* A numbering that never looks at the archive directory.
NextVersionAlwaysOne(lv, arch) == 1

_next_version_number(lv, arch) ==
  LET versions == CHOOSE l \in get_file_versions(lv, arch) : TRUE
      past == PastOf(versions)
  IN IF Len(past) = 0 THEN 1 ELSE SeqMax(VersionNumbers(past)) + 1

\* A copy that is refused when an archive of that number is already there.
PutArchiveUnlessNumbered(arch, name, content) ==
  IF \E f \in arch : ParseBackupName(f.name).version = ParseBackupName(name).version
  THEN arch
  ELSE { f \in arch : f.name # name } \cup { ArchiveFile(name, content) }

\* shutil.copy2(file_path, backup_path): the archive file of that name is
\* created or overwritten.
PutArchive(arch, name, content) ==
  { f \in arch : f.name # name } \cup { ArchiveFile(name, content) }

\* Encodings a caller may name, and whether text can be written or read.
Encodings == {"utf-8", "ascii"}

Encodable(text, encoding) ==
  encoding = "utf-8" \/ \A i \in 1..Len(text) : text[i] # NonAsciiChar

(***************************************************************************)
(* Inputs of the calls.                                                    *)
(***************************************************************************)
TextA == <<"a">>
TextB == <<"b">>
TextZ == <<"z">>
TextNonAscii == <<NonAsciiChar>>

InitialContents == { TextA }

SimplePatch(search, replace) ==
  SearchMarker \o search \o <<NL>> \o Eq7 \o <<NL>> \o replace \o <<NL>> \o ReplaceMarker

CustomPatch(search, replace) ==
  CustomSearchMarker \o <<NL>> \o search \o <<NL>> \o CustomReplaceMarker
  \o <<NL>> \o replace \o <<NL>> \o CustomEndMarker

\* Patch texts: no block of any dialect; one block that matches "a"; one
\* block that matches nothing.
PatchTexts ==
  { <<"x", "y", "z">>,
    CustomPatch(TextA, TextB),
    SimplePatch(TextZ, TextB) }

DefaultArgs ==
  [use_direct_mode |-> FALSE, search_text |-> None, replace_text |-> None,
   diff_text |-> None, similarity_threshold |-> DefaultThreshold,
   allow_partial_matches |-> TRUE, replace_all |-> TRUE, create_backup |-> TRUE,
   change_tag |-> NoTag, encoding |-> "utf-8", version_number |-> 0]

\* What a file_diff_write call may pass for the edit itself.
DirectEdit(st, rt, encoding) ==
  [use_direct_mode |-> TRUE, search_text |-> st, replace_text |-> rt,
   diff_text |-> None, encoding |-> encoding]

PatchEdit(dt, encoding) ==
  [use_direct_mode |-> FALSE, search_text |-> None, replace_text |-> None,
   diff_text |-> dt, encoding |-> encoding]

EditRequests ==
  { DirectEdit(None, Some(TextB), "utf-8"),
    DirectEdit(Some(TextA), Some(TextB), "utf-8"),
    DirectEdit(Some(TextZ), Some(TextB), "utf-8"),
    DirectEdit(Some(TextA), Some(TextNonAscii), "ascii"),
    PatchEdit(None, "utf-8") }
  \cup { PatchEdit(Some(t), "utf-8") : t \in PatchTexts }

ChangeTags == { <<"t", "!">> }

RestoreVersions == { 1, 2, 99 }

(***************************************************************************)
(* Call frames.                                                            *)
(***************************************************************************)
NoResult ==
  [success |-> FALSE, error |-> "none", backup_created |-> FALSE,
   changes_applied |-> 0, warnings |-> 0, restored_version |-> 0,
   available_versions |-> <<>>, versions |-> <<>>, has_current |-> FALSE]

IdleFrame ==
  [op |-> "none", args |-> DefaultArgs, vnum |-> 0, backup_info |-> None,
   original |-> None, wrote |-> FALSE, pre_live |-> NoFile, pre_archives |-> {},
   prev |-> None, inputs |-> None, returned |-> None, result |-> NoResult]

Failure(error) == [NoResult EXCEPT !.error = error]

\* A call begins: the frame records the operation and, for the statements
\* about a whole call, the store as the call found it; a snapshot call also
\* records the restore that returned just before it.
NewFrame(op, create_backup) ==
  [IdleFrame EXCEPT !.op = op, !.args.create_backup = create_backup,
                    !.pre_live = live, !.pre_archives = archives,
                    !.prev = IF op = "snapshot" THEN restored ELSE None]

\* A call that takes a snapshot is only begun while version numbers remain.
CanSnapshot == \A f \in archives : ParseBackupName(f.name).version < MaxVersions

Idle(p) == pc[p] = "idle"

MayStart(p, serial) == Idle(p) /\ (serial => \A q \in Procs : Idle(q))

Goto(p, label) == pc' = [pc EXCEPT ![p] = label]

Finish(p, fr, result) ==
  /\ frame' = [frame EXCEPT ![p] = [fr EXCEPT !.result = result]]
  /\ Goto(p, "done")

\* Where a write-through call goes after its existence check.
AfterExistsCheck(create_backup, next) ==
  IF create_backup THEN "backup_scan" ELSE next

Init ==
  /\ live \in { FileOf(c) : c \in InitialContents }
  /\ archives = {}
  /\ now = 0
  /\ pc = [p \in Procs |-> "idle"]
  /\ frame = [p \in Procs |-> IdleFrame]
  /\ taken = <<>>
  /\ restored = None

(***************************************************************************)
(* create_file_backup, in two steps: the scan that computes the next       *)
(* version number, then the copy.                                          *)
(***************************************************************************)
\* snapshot(file_path, change_tag): create_file_backup called on its own.
StartSnapshot(p, serial) ==
  /\ MayStart(p, serial)
  /\ CanSnapshot
  /\ frame' = [frame EXCEPT ![p] = NewFrame("snapshot", TRUE)]
  /\ Goto(p, "backup_scan")
  /\ restored' = None
  /\ UNCHANGED <<live, archives, now, taken>>

BackupScan(p) ==
  /\ pc[p] = "backup_scan"
  /\ frame' = [frame EXCEPT ![p].vnum = _next_version_number(live, archives)]
  /\ Goto(p, "backup_copy")
  /\ UNCHANGED <<live, archives, now, taken, restored>>

\* The tag create_file_backup is called with.
BackupTags(op) == IF op = "restore" THEN { PreRestoreTag } ELSE ChangeTags

\* Where the caller of create_file_backup continues; the write-through
\* entry points swallow its exception and go on.
AfterBackup(op) ==
  IF op = "write" THEN "read" ELSE IF op = "restore" THEN "restore" ELSE "done"

BackupInfo(vnum, ts, change_tag, name) ==
  [version |-> vnum, timestamp |-> ts, change_tag |-> change_tag, path |-> name]

Taken(vnum, name, content) == [version |-> vnum, name |-> name, content |-> content]

\* shutil.copy2 raises when the live file is gone or the archive directory
\* cannot be written (copy_ok false).
BackupCopy(p) ==
  /\ pc[p] = "backup_copy"
  /\ \E tag \in BackupTags(frame[p].op), copy_ok \in BOOLEAN :
       LET fr == [frame[p] EXCEPT !.args.change_tag = tag]
           name == BackupFileName(fr.vnum, now, tag)
           copied == live.exists /\ copy_ok
           info == BackupInfo(fr.vnum, now, tag, name)
       IN /\ archives' = IF copied THEN PutArchive(archives, name, live.content)
                         ELSE archives
          /\ taken' = IF copied THEN Append(taken, Taken(fr.vnum, name, live.content))
                      ELSE taken
          /\ IF fr.op = "snapshot"
             THEN Finish(p, [fr EXCEPT !.backup_info = IF copied THEN Some(info) ELSE None],
                         IF copied THEN [NoResult EXCEPT !.success = TRUE,
                                                         !.backup_created = TRUE]
                         ELSE Failure("raised"))
             ELSE /\ frame' = [frame EXCEPT ![p] =
                                 [fr EXCEPT !.backup_info = IF copied THEN Some(info) ELSE None]]
                  /\ Goto(p, AfterBackup(fr.op))
  /\ UNCHANGED <<live, now, restored>>

(***************************************************************************)
(* file_diff_write.                                                        *)
(***************************************************************************)
\* read_file_content: raises when the file is gone or cannot be decoded.
read_file_content(lv, encoding) ==
  IF lv.exists /\ Encodable(lv.content, encoding)
  THEN [raised |-> FALSE, text |-> lv.content]
  ELSE [raised |-> TRUE, text |-> <<>>]

\* write_file_content: Path.write_text opens the file for writing, which
\* creates or truncates it, then encodes and writes; text the encoding
\* cannot express raises after the truncation.
write_file_content(content, encoding) ==
  IF Encodable(content, encoding)
  THEN [raised |-> FALSE, live |-> FileOf(content)]
  ELSE [raised |-> TRUE, live |-> FileOf(<<>>)]

StartWrite(p, serial) ==
  /\ MayStart(p, serial)
  /\ \E create_backup \in BOOLEAN :
       /\ create_backup => CanSnapshot
       /\ IF ~live.exists
          THEN Finish(p, NewFrame("write", create_backup), Failure("File not found"))
          ELSE /\ frame' = [frame EXCEPT ![p] = NewFrame("write", create_backup)]
               /\ Goto(p, AfterExistsCheck(create_backup, "read"))
  /\ restored' = None
  /\ UNCHANGED <<live, archives, now, taken>>

ReadOriginal(p) ==
  /\ pc[p] = "read"
  /\ \E encoding \in Encodings :
       LET fr == [frame[p] EXCEPT !.args.encoding = encoding]
           r == read_file_content(live, encoding)
       IN IF r.raised
          THEN Finish(p, fr, Failure("Unexpected error"))
          ELSE /\ frame' = [frame EXCEPT ![p] = [fr EXCEPT !.original = Some(r.text)]]
               /\ Goto(p, "apply")
  /\ UNCHANGED <<live, archives, now, taken, restored>>

\* reports: whether the response carries backup_created.
Rejected(error, reports) ==
  [write |-> FALSE, error |-> error, text |-> <<>>, changes |-> 0,
   warnings |-> 0, reports |-> reports]

Accepted(text, changes, warnings) ==
  [write |-> TRUE, error |-> "none", text |-> text,
   changes |-> changes, warnings |-> warnings, reports |-> TRUE]

\* Direct mode after the one replacement.
DirectOutcome(r) ==
  IF ~r.ok THEN Rejected("Direct mode replacement failed", TRUE)
  ELSE Accepted(r.text, Max(1, r.debug.replaced_count), 0)

\* Diff mode after the blocks were applied.
BlocksOutcome(r) ==
  IF r.changes = 0 THEN Rejected("No changes were applied", TRUE)
  ELSE Accepted(r.text, r.changes, Len(r.warnings))

\* Diff mode after the blocks were extracted.
PatchOutcome(original, args, blocks) ==
  IF Len(blocks) = 0 THEN Rejected("No valid diff blocks found", TRUE)
  ELSE BlocksOutcome(apply_diff_blocks(original, blocks, args.similarity_threshold,
                                       args.allow_partial_matches, args.replace_all))

\* What file_diff_write decides from the text it read: an early return with
\* success=false, or the text to write.
EditOutcome(original, args) ==
  IF args.use_direct_mode
  THEN IF args.search_text = None \/ args.replace_text = None
       THEN Rejected("Direct mode requires search_text and replace_text", FALSE)
       ELSE DirectOutcome(apply_diff_edit(original, args.search_text[1],
                                          args.replace_text[1],
                                          args.similarity_threshold,
                                          args.allow_partial_matches, args.replace_all))
  ELSE IF args.diff_text = None
  THEN Rejected("Provide diff_text or set use_direct_mode=true", FALSE)
  ELSE PatchOutcome(original, args, extract_diff_blocks(args.diff_text[1]))

\* The early return, or write_file_content and the response after it.
WriteOutcome(p, fr, out, w) ==
  IF ~out.write
  THEN /\ Finish(p, fr, [Failure(out.error) EXCEPT
                           !.backup_created = out.reports /\ fr.backup_info # None])
       /\ UNCHANGED live
  ELSE /\ Len(out.text) <= MaxDocLen
       /\ live' = w.live
       /\ IF w.raised
          THEN Finish(p, fr, Failure("Unexpected error"))
          ELSE Finish(p, [fr EXCEPT !.wrote = TRUE],
                      [NoResult EXCEPT !.success = TRUE,
                                       !.backup_created = fr.backup_info # None,
                                       !.changes_applied = out.changes,
                                       !.warnings = out.warnings])

\* A write that applies the edit to the file as it is at the write.
ApplyEditToLive(p, fr, out) ==
  WriteOutcome(p, fr, EditOutcome(live.content, fr.args),
               write_file_content(EditOutcome(live.content, fr.args).text,
                                  fr.args.encoding))

ApplyEdit(p, fr, out) ==
  WriteOutcome(p, fr, out, write_file_content(out.text, fr.args.encoding))

\* The rest of file_diff_write for an edit the caller draws from requests.
ApplyRequest(p, requests) ==
  /\ pc[p] = "apply"
  /\ \E req \in { r \in requests : r.encoding = frame[p].args.encoding } :
       LET fr == [frame[p] EXCEPT !.args.use_direct_mode = req.use_direct_mode,
                                  !.args.search_text = req.search_text,
                                  !.args.replace_text = req.replace_text,
                                  !.args.diff_text = req.diff_text]
       IN ApplyEdit(p, fr, EditOutcome(fr.original[1], fr.args))
  /\ UNCHANGED <<archives, now, taken, restored>>

ApplyAndWrite(p) == ApplyRequest(p, EditRequests)

(***************************************************************************)
(* file_diff_restore and file_diff_versions.                               *)
(***************************************************************************)
\* The newest entry, whatever number was asked for.
FirstOfPast(past, v) == IF Len(past) = 0 THEN None ELSE Some(past[1])

FirstWithVersion(past, v) ==
  LET hits == { i \in 1..Len(past) : past[i].version = v }
  IN IF hits = {} THEN None
     ELSE Some(past[CHOOSE i \in hits : \A j \in hits : i <= j])

\* restore_file_version on the list get_file_versions returned: the
\* ValueError it raises, or the archive it copies over the live file.
restore_file_version(versions, version_number) ==
  LET past == PastOf(versions)
      target == FirstWithVersion(past, version_number)
  IN IF Len(past) = 0
     THEN [raised |-> TRUE, error |-> "No previous versions found", path |-> <<>>]
     ELSE IF target = None
     THEN [raised |-> TRUE, error |-> "Version not found", path |-> <<>>]
     ELSE [raised |-> FALSE, error |-> "none", path |-> target[1].path]

ArchiveContent(arch, name) == (CHOOSE f \in arch : f.name = name).content

StartRestore(p, serial) ==
  /\ MayStart(p, serial)
  /\ \E create_backup \in BOOLEAN :
       /\ create_backup => CanSnapshot
       /\ IF ~live.exists
          THEN \E v \in RestoreVersions :
                 Finish(p, [NewFrame("restore", create_backup) EXCEPT
                              !.args.version_number = v],
                        Failure("File not found"))
          ELSE /\ frame' = [frame EXCEPT ![p] = NewFrame("restore", create_backup)]
               /\ Goto(p, AfterExistsCheck(create_backup, "restore"))
  /\ restored' = None
  /\ UNCHANGED <<live, archives, now, taken>>

RestoreVersion(p) ==
  /\ pc[p] = "restore"
  /\ \E v \in RestoreVersions, versions \in get_file_versions(live, archives),
        after \in get_file_versions(live, archives) :
       LET fr == [frame[p] EXCEPT !.args.version_number = v]
           r == restore_file_version(versions, v)
       IN IF r.raised
          THEN /\ Finish(p, fr, [Failure(r.error) EXCEPT
                                   !.available_versions = VersionNumbers(PastOf(after)),
                                   !.backup_created = fr.backup_info # None])
               /\ UNCHANGED live
          ELSE /\ live' = FileOf(ArchiveContent(archives, r.path))
               /\ Finish(p, fr, [NoResult EXCEPT !.success = TRUE,
                                                 !.restored_version = v,
                                                 !.backup_created = fr.backup_info # None])
  /\ UNCHANGED <<archives, now, taken, restored>>

StartVersions(p, serial) ==
  /\ MayStart(p, serial)
  /\ IF ~live.exists
     THEN Finish(p, NewFrame("versions", FALSE), Failure("File not found"))
     ELSE /\ frame' = [frame EXCEPT ![p] = NewFrame("versions", FALSE)]
          /\ Goto(p, "list")
  /\ restored' = None
  /\ UNCHANGED <<live, archives, now, taken>>

ListVersions(p) ==
  /\ pc[p] = "list"
  /\ \E versions \in get_file_versions(live, archives) :
       Finish(p, frame[p],
              [NoResult EXCEPT !.success = TRUE,
                               !.versions = PastOf(versions),
                               !.has_current = \E i \in 1..Len(versions) : versions[i].current])
  /\ UNCHANGED <<live, archives, now, taken, restored>>

\* What a returned call leaves in the history: a successful restore, with
\* the number of archives it found and whether it took its own backup.
Restored(fr) ==
  IF fr.op = "restore" /\ fr.result.success
  THEN Some([version |-> fr.args.version_number,
             before |-> Cardinality(fr.pre_archives),
             backed |-> fr.backup_info # None])
  ELSE None

\* The caller takes the response; the frame is gone.
Return(p) ==
  /\ pc[p] = "done"
  /\ restored' = Restored(frame[p])
  /\ frame' = [frame EXCEPT ![p] = IdleFrame]
  /\ Goto(p, "idle")
  /\ UNCHANGED <<live, archives, now, taken>>

\* The live file is lost (deleted from outside) while no call is running.
LoseLiveFile ==
  /\ \A p \in Procs : Idle(p)
  /\ live.exists
  /\ live' = NoFile
  /\ UNCHANGED <<archives, now, pc, frame, taken, restored>>

\* One caller, one call at a time.
Caller == CHOOSE p \in Procs : \A q \in Procs : p <= q

Next ==
  \/ StartSnapshot(Caller, TRUE)
  \/ StartWrite(Caller, TRUE)
  \/ StartRestore(Caller, TRUE)
  \/ StartVersions(Caller, TRUE)
  \/ BackupScan(Caller)
  \/ BackupCopy(Caller)
  \/ ReadOriginal(Caller)
  \/ ApplyAndWrite(Caller)
  \/ RestoreVersion(Caller)
  \/ ListVersions(Caller)
  \/ Return(Caller)
  \/ LoseLiveFile

Spec == Init /\ [][Next]_vars

(***************************************************************************)
(* Two callers on the same file whose steps interleave: the code takes no  *)
(* lock anywhere.                                                          *)
(***************************************************************************)
\* The edits of the racing callers: one replaces "a" by "b", the other has
\* an empty search text and so appends "b".
RaceRequests ==
  { DirectEdit(Some(TextA), Some(TextB), "utf-8"),
    DirectEdit(Some(<<>>), Some(TextB), "utf-8") }

RaceApplyAndWrite(p) == ApplyRequest(p, RaceRequests)

\* Each caller makes one call and keeps its response.
RaceNext ==
  \E p \in Procs :
    \/ StartSnapshot(p, FALSE)
    \/ StartWrite(p, FALSE)
    \/ BackupScan(p)
    \/ BackupCopy(p)
    \/ ReadOriginal(p)
    \/ RaceApplyAndWrite(p)

RaceSpec == Init /\ [][RaceNext]_vars

(***************************************************************************)
(* extract_diff_blocks called on its own, on patch texts of up to          *)
(* MaxBlocks pieces: blocks of the six dialects and a line of other text.  *)
(***************************************************************************)
MaxBlocks == 2

TextFoo == <<"f", "o", "o">>
TextBar == <<"b", "a", "r">>
FileHint == <<"f", ".", "p", "y">>

FencedPatch(hint, search, replace) ==
  Fence \o DiffWord \o <<NL>> \o hint \o <<NL>> \o SimplePatch(search, replace)
  \o <<NL>> \o Fence

DirectPatch(hint, search, replace) == hint \o <<NL>> \o SimplePatch(search, replace)

\* A fence with the markers inside it and no filename line.
EvolvePatch(search, replace) ==
  Fence \o DiffWord \o <<NL>> \o SimplePatch(search, replace) \o <<NL>> \o Fence

GitPatch(hint, old, new) ==
  GitOldHeader \o hint \o <<NL>> \o GitNewHeader \o hint \o <<NL>>
  \o <<"@", "@", SP, "-", "1", SP, "+", "1", SP, "@", "@", NL>>
  \o <<"-">> \o old \o <<NL, "+">> \o new

PatchPieces ==
  { CustomPatch(TextFoo, TextBar),
    FencedPatch(FileHint, TextFoo, TextBar),
    DirectPatch(FileHint, TextFoo, TextBar),
    SimplePatch(TextFoo, TextBar),
    EvolvePatch(TextFoo, TextBar),
    GitPatch(FileHint, TextFoo, TextBar),
    <<"x", "y", "z">> }

\* The texts of 1..n pieces, one per line.
RECURSIVE PatchesOf(_)
PatchesOf(n) ==
  IF n = 1 THEN PatchPieces
  ELSE PatchesOf(n - 1)
       \cup { t \o <<NL>> \o piece : t \in PatchesOf(n - 1), piece \in PatchPieces }

ExtractInit ==
  /\ live \in { FileOf(c) : c \in InitialContents }
  /\ archives = {}
  /\ now = 0
  /\ pc = [p \in Procs |-> IF p = Caller THEN "extract" ELSE "idle"]
  /\ frame \in { [p \in Procs |->
                    IF p = Caller
                    THEN [IdleFrame EXCEPT !.op = "extract", !.args.diff_text = Some(t)]
                    ELSE IdleFrame] : t \in PatchesOf(MaxBlocks) }
  /\ taken = <<>>
  /\ restored = None

ExtractBlocks(p) ==
  /\ pc[p] = "extract"
  /\ frame' = [frame EXCEPT
                 ![p].returned = Some(extract_diff_blocks(frame[p].args.diff_text[1]))]
  /\ Goto(p, "done")
  /\ UNCHANGED <<live, archives, now, taken, restored>>

ExtractNext ==
  \/ ExtractBlocks(Caller)
  \/ Return(Caller)

ExtractSpec == ExtractInit /\ [][ExtractNext]_vars

(***************************************************************************)
(* apply_diff_edit called on its own, on every document of up to MaxDocLen *)
(* characters of a small alphabet.                                         *)
(***************************************************************************)
EditAlphabet == { "a", "A", SP, NL }

\* The texts of at most n characters.
RECURSIVE TextsUpTo(_)
TextsUpTo(n) ==
  IF n = 0 THEN { <<>> }
  ELSE TextsUpTo(n - 1)
       \cup { Append(t, c) : t \in { u \in TextsUpTo(n - 1) : Len(u) = n - 1 },
                             c \in EditAlphabet }

\* Search fragments: empty, blank, present or absent in a document, of one
\* line or two, differing from the document in case or in spacing.
SearchFragments ==
  { <<>>, <<SP>>, <<NL>>, <<SP, NL>>, <<"a">>, <<"A">>, <<"z">>, <<"a", "a">>,
    <<"a", SP>>, <<"a", SP, "A">>, <<"a", NL, "a">>, <<"A", NL>> }

ReplaceFragments == { <<>>, <<"x">>, <<"a", "a">> }

Thresholds == { DefaultThreshold, Frac(1, 2), One }

EditInit ==
  /\ live \in { FileOf(c) : c \in InitialContents }
  /\ archives = {}
  /\ now = 0
  /\ pc = [p \in Procs |-> IF p = Caller THEN "edit" ELSE "idle"]
  /\ frame \in { [p \in Procs |->
                    IF p = Caller
                    THEN [IdleFrame EXCEPT !.op = "edit",
                                           !.original = Some(t),
                                           !.args.search_text = Some(st),
                                           !.args.replace_text = Some(rt),
                                           !.args.similarity_threshold = th,
                                           !.args.allow_partial_matches = ap,
                                           !.args.replace_all = ra]
                    ELSE IdleFrame] :
                  t \in TextsUpTo(MaxDocLen), st \in SearchFragments,
                  rt \in ReplaceFragments, th \in Thresholds,
                  ap \in BOOLEAN, ra \in BOOLEAN }
  /\ taken = <<>>
  /\ restored = None

ApplySingle(p) ==
  /\ pc[p] = "edit"
  /\ frame' = [frame EXCEPT
                 ![p].returned =
                    Some(apply_diff_edit(frame[p].original[1],
                                         frame[p].args.search_text[1],
                                         frame[p].args.replace_text[1],
                                         frame[p].args.similarity_threshold,
                                         frame[p].args.allow_partial_matches,
                                         frame[p].args.replace_all))]
  /\ Goto(p, "done")
  /\ UNCHANGED <<live, archives, now, taken, restored>>

EditNext ==
  \/ ApplySingle(Caller)
  \/ Return(Caller)

EditSpec == EditInit /\ [][EditNext]_vars

(***************************************************************************)
(* apply_diff_blocks called on its own, on lists of up to MaxApplied       *)
(* blocks; frame.inputs holds the arguments that file_diff_write does not  *)
(* have.                                                                   *)
(***************************************************************************)
MaxApplied == 3

LineAlphabet == { "a", NL }

\* The texts of at most n characters of an alphabet.
RECURSIVE TextsOver(_, _)
TextsOver(alphabet, n) ==
  IF n = 0 THEN { <<>> }
  ELSE TextsOver(alphabet, n - 1)
       \cup { Append(t, c) : t \in { u \in TextsOver(alphabet, n - 1) : Len(u) = n - 1 },
                             c \in alphabet }

\* Blocks: one that matches "a", one that matches only what the first one
\* writes, one that matches nothing, one with an empty search fragment.
AppliedBlocks ==
  { DiffBlock(<<"a">>, <<"x">>, "simple_blocks", NoHint),
    DiffBlock(<<"x">>, <<"a", "a">>, "simple_blocks", NoHint),
    DiffBlock(<<"z">>, <<"x">>, "simple_blocks", NoHint),
    DiffBlock(<<>>, <<"x">>, "simple_blocks", NoHint) }

\* The lists of at most n blocks.
RECURSIVE BlockLists(_)
BlockLists(n) ==
  IF n = 0 THEN { <<>> }
  ELSE BlockLists(n - 1)
       \cup { Append(bs, b) : bs \in { cs \in BlockLists(n - 1) : Len(cs) = n - 1 },
                              b \in AppliedBlocks }

ApplyAllInit ==
  /\ live \in { FileOf(c) : c \in InitialContents }
  /\ archives = {}
  /\ now = 0
  /\ pc = [p \in Procs |-> IF p = Caller THEN "apply_all" ELSE "idle"]
  /\ frame \in { [p \in Procs |->
                    IF p = Caller
                    THEN [IdleFrame EXCEPT !.op = "apply_all",
                                           !.original = Some(t),
                                           !.inputs = Some([blocks |-> bs]),
                                           !.args.allow_partial_matches = ap,
                                           !.args.replace_all = ra]
                    ELSE IdleFrame] :
                  t \in TextsOver(LineAlphabet, MaxDocLen), bs \in BlockLists(MaxApplied),
                  ap \in BOOLEAN, ra \in BOOLEAN }
  /\ taken = <<>>
  /\ restored = None

ApplyAll(p) ==
  /\ pc[p] = "apply_all"
  /\ frame' = [frame EXCEPT
                 ![p].returned =
                    Some(apply_diff_blocks(frame[p].original[1],
                                           frame[p].inputs[1].blocks,
                                           frame[p].args.similarity_threshold,
                                           frame[p].args.allow_partial_matches,
                                           frame[p].args.replace_all))]
  /\ Goto(p, "done")
  /\ UNCHANGED <<live, archives, now, taken, restored>>

ApplyAllNext ==
  \/ ApplyAll(Caller)
  \/ Return(Caller)

ApplyAllSpec == ApplyAllInit /\ [][ApplyAllNext]_vars

(***************************************************************************)
(* find_fuzzy_matches called on its own, with every set of strategies a    *)
(* caller may enable.                                                      *)
(***************************************************************************)
HelloWorld == <<"H", "e", "l", "l", "o", ",", SP, "W", "o", "r", "l", "d">>

\* The line "  Hello,   World  ".
HelloLine ==
  <<SP, SP, "H", "e", "l", "l", "o", ",", SP, SP, SP, "W", "o", "r", "l", "d", SP, SP>>

\* Documents: every short text, and the line above alone and between lines.
LocateDocuments ==
  TextsUpTo(MaxDocLen)
  \cup { HelloLine, <<"a", NL>> \o HelloLine \o <<NL, "a">> }

LocateFragments == SearchFragments \cup { HelloWorld }

MethodSets ==
  { AllMethods, {"normalized"}, {"exact", "normalized"}, AllMethods \ {"exact"} }

LocateInit ==
  /\ live \in { FileOf(c) : c \in InitialContents }
  /\ archives = {}
  /\ now = 0
  /\ pc = [p \in Procs |-> IF p = Caller THEN "locate" ELSE "idle"]
  /\ frame \in { [p \in Procs |->
                    IF p = Caller
                    THEN [IdleFrame EXCEPT !.op = "locate",
                                           !.original = Some(t),
                                           !.inputs = Some([methods |-> ms]),
                                           !.args.search_text = Some(st),
                                           !.args.similarity_threshold = th]
                    ELSE IdleFrame] :
                  t \in LocateDocuments, st \in LocateFragments,
                  th \in Thresholds, ms \in MethodSets }
  /\ taken = <<>>
  /\ restored = None

Locate(p) ==
  /\ pc[p] = "locate"
  /\ frame' = [frame EXCEPT
                 ![p].returned =
                    Some(find_fuzzy_matches(frame[p].args.search_text[1],
                                            frame[p].original[1],
                                            frame[p].args.similarity_threshold,
                                            frame[p].inputs[1].methods))]
  /\ Goto(p, "done")
  /\ UNCHANGED <<live, archives, now, taken, restored>>

LocateNext ==
  \/ Locate(Caller)
  \/ Return(Caller)

LocateSpec == LocateInit /\ [][LocateNext]_vars

(***************************************************************************)
(* calculate_similarity called on a pair of strings and then on the pair   *)
(* swapped; frame.returned collects the two results.                       *)
(***************************************************************************)
LetterAlphabet == { "a", "b", "c" }

\* Strings of letters, and strings of tokens that differ in order, case and
\* spacing.
SimilarityTexts ==
  TextsOver(LetterAlphabet, MaxDocLen)
  \cup { <<SP>>, <<"a", SP, "b">>, <<"B", SP, "a">>, <<"b", SP, SP, "a">>,
         <<"a", SP, "a", SP, "c">> }

SimilarityMethods == { "ratio", "token_sort", "token_set" }

SimilarityInit ==
  /\ live \in { FileOf(c) : c \in InitialContents }
  /\ archives = {}
  /\ now = 0
  /\ pc = [p \in Procs |-> IF p = Caller THEN "similarity" ELSE "idle"]
  /\ frame \in { [p \in Procs |->
                    IF p = Caller
                    THEN [IdleFrame EXCEPT !.op = "similarity",
                                           !.inputs = Some([a |-> a, b |-> b, method |-> m])]
                    ELSE IdleFrame] :
                  a \in SimilarityTexts, b \in SimilarityTexts, m \in SimilarityMethods }
  /\ taken = <<>>
  /\ restored = None

\* similarity(a, b, method)
Similarity(p) ==
  /\ pc[p] = "similarity"
  /\ frame' = [frame EXCEPT
                 ![p].returned =
                    << calculate_similarity(frame[p].inputs[1].a, frame[p].inputs[1].b,
                                            frame[p].inputs[1].method) >>]
  /\ Goto(p, "swapped")
  /\ UNCHANGED <<live, archives, now, taken, restored>>

\* similarity(b, a, method)
SimilaritySwapped(p) ==
  /\ pc[p] = "swapped"
  /\ frame' = [frame EXCEPT
                 ![p].returned =
                    Append(frame[p].returned,
                           calculate_similarity(frame[p].inputs[1].b, frame[p].inputs[1].a,
                                                frame[p].inputs[1].method))]
  /\ Goto(p, "done")
  /\ UNCHANGED <<live, archives, now, taken, restored>>

SimilarityNext ==
  \/ Similarity(Caller)
  \/ SimilaritySwapped(Caller)
  \/ Return(Caller)

SimilaritySpec == SimilarityInit /\ [][SimilarityNext]_vars

(***************************************************************************)
(* Properties of the store under one caller.                               *)
(***************************************************************************)
VersionOf(f) == ParseBackupName(f.name).version

ArchiveVersions(arch) == { VersionOf(f) : f \in arch }

SetMax(S) == CHOOSE m \in S : \A x \in S : x <= m

Elements(seq) == { seq[i] : i \in 1..Len(seq) }

StrictlyDescending(nums) == \A i \in 1..(Len(nums) - 1) : nums[i] > nums[i + 1]

Done(p, op) == pc[p] = "done" /\ frame[p].op = op

\* C1: in file_diff_write with create_backup=true, content is written to
\* the live file only after a backup archive holding the pre-write content
\* was created in the same call.
C1_BackupBeforeWrite ==
  \A p \in Procs :
    (frame[p].op = "write" /\ frame[p].args.create_backup /\ frame[p].wrote)
    => /\ frame[p].backup_info # None
       /\ \E f \in archives : /\ f.name = frame[p].backup_info[1].path
                              /\ f.content = frame[p].pre_live.content

\* C2: whenever file_diff_write returns success=false, the live file is as
\* it was before the call.
C2_FailedWriteLeavesFile ==
  \A p \in Procs :
    (Done(p, "write") /\ ~frame[p].result.success) => live = frame[p].pre_live

\* C3: after N snapshots of the file, taken one call at a time,
\* list_versions returns N historical entries numbered exactly 1..N.
C3_VersionsNumberedOneToN ==
  \A p \in Procs :
    (Done(p, "versions") /\ frame[p].result.success)
    => LET nums == VersionNumbers(frame[p].result.versions)
       IN Len(nums) = Len(taken) /\ Elements(nums) = 1..Len(taken)

C3_Witness ==
  \E p \in Procs : /\ Done(p, "versions") /\ frame[p].result.success
                   /\ Len(taken) = 3
                   /\ Len(frame[p].result.versions) = 3

\* C4: with calls issued one at a time, every snapshot is assigned
\* max(existing version numbers)+1, or 1 when there are none, so the numbers
\* assigned strictly increase and none is assigned twice.
C4_SnapshotGetsMaxPlusOne ==
  /\ \A p \in Procs :
       frame[p].backup_info # None
       => LET existing == ArchiveVersions(frame[p].pre_archives)
          IN frame[p].backup_info[1].version =
               IF existing = {} THEN 1 ELSE SetMax(existing) + 1
  /\ \A i, j \in 1..Len(taken) : i < j => taken[i].version < taken[j].version

C4_Witness ==
  \E p \in Procs : /\ frame[p].backup_info # None
                   /\ frame[p].backup_info[1].version = 3
                   /\ Len(taken) = 3

\* A snapshot call that follows a successful restore to version 2 of a
\* file that had at least two archived versions, and has taken its snapshot.
SnapshotAfterRestoreToTwo(p) ==
  /\ frame[p].op = "snapshot"
  /\ frame[p].backup_info # None
  /\ frame[p].prev # None
  /\ frame[p].prev[1].version = 2
  /\ frame[p].prev[1].before >= 2

\* C5: with N >= 2 archived versions, the snapshot that follows a restore
\* to version 2 is numbered N+1.
C5_SnapshotAfterRestoreIsNPlusOne ==
  \A p \in Procs :
    SnapshotAfterRestoreToTwo(p)
    => frame[p].backup_info[1].version = frame[p].prev[1].before + 1

\* C5, amended: with N >= 2 archived versions, the snapshot that follows a
\* restore to version 2 is numbered N+1 when the restore took no backup of
\* its own and N+2 when it did; it is never numbered N or less.
C5_SnapshotAfterRestoreContinues ==
  \A p \in Procs :
    SnapshotAfterRestoreToTwo(p)
    => frame[p].backup_info[1].version =
         frame[p].prev[1].before + (IF frame[p].prev[1].backed THEN 2 ELSE 1)

C5_Witness ==
  \E p \in Procs : /\ SnapshotAfterRestoreToTwo(p)
                   /\ frame[p].prev[1].before = 2
                   /\ frame[p].prev[1].backed
                   /\ frame[p].backup_info[1].version = 4

\* C6: a successful restore to version v changes only the live file, which
\* gets the bytes archived as version v; the archives are as before.
C6_RestoreChangesOnlyLiveFile ==
  \A p \in Procs :
    (Done(p, "restore") /\ frame[p].result.success)
    => /\ archives = frame[p].pre_archives
       /\ \E f \in archives : /\ VersionOf(f) = frame[p].args.version_number
                              /\ live = FileOf(f.content)

\* C6, amended: a successful restore to version v gives the live file the
\* bytes archived as version v and leaves every archive that existed before
\* the call as it was; when it took its own backup, that is the one archive
\* added: tagged pre_restore, numbered max+1, holding the content the live
\* file had before the restore.
C6_RestoreKeepsArchives ==
  \A p \in Procs :
    (Done(p, "restore") /\ frame[p].result.success)
    => /\ frame[p].pre_archives \subseteq archives
       /\ archives \ frame[p].pre_archives =
            IF frame[p].backup_info = None THEN {}
            ELSE { ArchiveFile(BackupFileName(Cardinality(frame[p].pre_archives) + 1,
                                              frame[p].backup_info[1].timestamp,
                                              PreRestoreTag),
                               frame[p].pre_live.content) }
       /\ \E f \in archives : /\ VersionOf(f) = frame[p].args.version_number
                              /\ live = FileOf(f.content)

C6_Witness ==
  \E p \in Procs : /\ Done(p, "restore") /\ frame[p].result.success
                   /\ frame[p].backup_info # None
                   /\ frame[p].pre_archives # {}
                   /\ live # frame[p].pre_live

\* C7: a restore of a version number absent from the archive fails with a
\* version-not-found error that lists exactly the version numbers that
\* existed when the call was made.
C7_NotFoundListsVersionsAtCall ==
  \A p \in Procs :
    (Done(p, "restore") /\ frame[p].result.error = "Version not found")
    => Elements(frame[p].result.available_versions)
         = ArchiveVersions(frame[p].pre_archives)

\* C8: whenever an archive numbered v exists, restore to v succeeds, also
\* when the live file has been lost.
C8_RestoreSucceedsWhenArchived ==
  \A p \in Procs :
    (/\ Done(p, "restore")
     /\ frame[p].args.version_number \in ArchiveVersions(frame[p].pre_archives))
    => frame[p].result.success

\* C9: list_versions returns the historical entries, all of them, in
\* strictly descending version order, with the 'current' entry exactly when
\* the live file exists.
C9_ListingNewestFirstWithCurrent ==
  \A p \in Procs :
    Done(p, "versions")
    => LET nums == VersionNumbers(frame[p].result.versions)
       IN /\ StrictlyDescending(nums)
          /\ Elements(nums) = ArchiveVersions(archives)
          /\ frame[p].result.has_current = live.exists

\* C10: with calls issued one at a time, the archive written as number v
\* holds, ever after, the bytes the live file had when snapshot v was taken.
C10_ArchivesNeverRewritten ==
  \A i \in 1..Len(taken) :
    /\ ArchiveFile(taken[i].name, taken[i].content) \in archives
    /\ \A f \in archives : f.name = taken[i].name => f.content = taken[i].content
    /\ \A j \in 1..Len(taken) : taken[j].version = taken[i].version => j = i

C10_Witness ==
  /\ Len(taken) = 3
  /\ taken[1].content # taken[2].content
  /\ restored # None
  /\ live.exists /\ live.content # taken[3].content

(***************************************************************************)
(* Properties of the store under two callers whose steps interleave.       *)
(***************************************************************************)
MaxOrZero(S) == IF S = {} THEN 0 ELSE SetMax(S)

\* Caller p takes its copy step and a snapshot is recorded.
SnapshotRecorded(p) ==
  pc[p] = "backup_copy" /\ pc'[p] # "backup_copy" /\ Len(taken') = Len(taken) + 1

\* C11: without a lock two interleaved snapshot calls can be assigned the
\* same version number: the number is max+1 of the directory as the scan
\* finds it, and the copy that follows uses it without looking again, also
\* when an archive of that number has appeared in between.
C11_NumberFixedAtScan ==
  [][\A p \in Procs :
       /\ (pc[p] = "backup_scan" /\ pc'[p] = "backup_copy")
          => frame'[p].vnum = MaxOrZero(ArchiveVersions(archives)) + 1
       /\ SnapshotRecorded(p)
          => /\ taken'[Len(taken')].version = frame[p].vnum
             /\ \E f \in archives' : /\ VersionOf(f) = frame[p].vnum
                                     /\ f.content = live.content
    ]_vars

\* Two snapshot calls have both returned a backup of the same number.
C11_Witness ==
  \E p, q \in Procs :
    /\ p # q
    /\ Done(p, "snapshot") /\ Done(q, "snapshot")
    /\ frame[p].result.success /\ frame[q].result.success
    /\ frame[p].backup_info[1].version = frame[q].backup_info[1].version
    /\ Len(taken) = 2 /\ taken[1].version = taken[2].version

\* C12: without serialization two interleaved write-through edits can lose
\* an update: what a call writes is its edit of the content it read, whatever
\* the file holds by the time of the write.
C12_WritesEditOfContentRead ==
  [][\A p \in Procs :
       (pc[p] = "apply" /\ pc'[p] = "done" /\ frame'[p].wrote)
       => live'.content = EditOutcome(frame[p].original[1], frame'[p].args).text
    ]_vars

\* Both calls read the same content and report success, with different
\* edits; the file holds the edit of one of them alone.
C12_Witness ==
  \E p, q \in Procs :
    /\ Done(p, "write") /\ Done(q, "write")
    /\ frame[p].result.success /\ frame[q].result.success
    /\ frame[p].original = frame[q].original
    /\ frame[p].args.search_text = Some(TextA)
    /\ frame[q].args.search_text = Some(<<>>)
    /\ live.content = EditOutcome(frame[q].original[1], frame[q].args).text
    /\ live.content = TextA \o <<NL>> \o TextB

(***************************************************************************)
(* Properties of extract_diff_blocks.                                      *)
(***************************************************************************)
DialectOrder ==
  << "custom_safe", "toolkami_fenced", "toolkami_direct", "simple_blocks",
     "evolvemcp_style", "git_style" >>

\* re.findall of the dialect's pattern on the text.
DialectMatches(i, text) == FindAll(DIFF_PATTERNS[DialectOrder[i]], text, 0)

\* The dialects whose pattern matches the text at least once.
MatchingDialects(text) == { i \in 1..Len(DialectOrder) : Len(DialectMatches(i, text)) > 0 }

SetMin(S) == CHOOSE m \in S : \A x \in S : m <= x

\* blocks are the matches ms of dialect i, one block per match in the order
\* of the matches, the last two groups of a match being search and replace.
BlocksOfDialect(blocks, i, ms) ==
  /\ Len(blocks) = Len(ms)
  /\ \A k \in 1..Len(blocks) :
       /\ blocks[k].method = DialectOrder[i]
       /\ DialectOrder[i] # "git_style"
          => /\ blocks[k].search = ms[k][Len(ms[k]) - 1]
             /\ blocks[k].replace = ms[k][Len(ms[k])]

BlocksOfFirst(blocks, text, matching) ==
  IF matching = {} THEN blocks = <<>>
  ELSE BlocksOfDialect(blocks, SetMin(matching), DialectMatches(SetMin(matching), text))

\* C13: extract returns the complete match set of the highest-priority
\* dialect whose pattern matches the text at least once: one block per
\* match, in the order of the matches, every block carrying that dialect's
\* method, and nothing from a dialect of lower priority.
C13_FirstMatchingDialectWins ==
  \A p \in Procs :
    Done(p, "extract")
    => BlocksOfFirst(frame[p].returned[1], frame[p].args.diff_text[1],
                     MatchingDialects(frame[p].args.diff_text[1]))

\* Two blocks of one dialect were returned from a text that a dialect of
\* lower priority matches as well.
C13_Witness ==
  \E p \in Procs :
    /\ Done(p, "extract")
    /\ Len(frame[p].returned[1]) = 2
    /\ frame[p].returned[1][1].method = "toolkami_fenced"
    /\ Cardinality(MatchingDialects(frame[p].args.diff_text[1])) > 1

\* C14: the text of one SEARCH/REPLACE block with the fragments foo and
\* bar yields exactly one block, of method simple_blocks, whose search
\* fragment is exactly "foo" and whose replace fragment is exactly "bar".
C14_SimpleBlockFragmentsExact ==
  \A p \in Procs :
    (Done(p, "extract") /\ frame[p].args.diff_text = Some(SimplePatch(TextFoo, TextBar)))
    => /\ Len(frame[p].returned[1]) = 1
       /\ frame[p].returned[1][1].method = "simple_blocks"
       /\ frame[p].returned[1][1].search = TextFoo
       /\ frame[p].returned[1][1].replace = TextBar

\* C15: every dialect is selectable; in particular a fence with the
\* markers inside it and no filename line is extracted as evolvemcp_style.
C15_EvolveFenceSelected ==
  \A p \in Procs :
    (Done(p, "extract") /\ frame[p].args.diff_text = Some(EvolvePatch(TextFoo, TextBar)))
    => /\ Len(frame[p].returned[1]) = 1
       /\ frame[p].returned[1][1].method = "evolvemcp_style"

(***************************************************************************)
(* Properties of apply_diff_edit.  For a returned call of caller p: the    *)
(* document, the search and replace fragments, and what was returned.      *)
(***************************************************************************)
DocOf(p) == frame[p].original[1]
SearchOf(p) == frame[p].args.search_text[1]
ReplacementOf(p) == frame[p].args.replace_text[1]
EditOf(p) == frame[p].returned[1]

\* Empty or whitespace only.
Blank(s) == \A i \in 1..Len(s) : s[i] \in {SP, NL, TAB}

\* What the locator returns for the call of p.
CandidatesOf(p) ==
  find_fuzzy_matches(SearchOf(p), DocOf(p), frame[p].args.similarity_threshold,
                     SearchMethods(frame[p].args.allow_partial_matches))

Occurs(t, s, i) == i + Len(s) <= Len(t) /\ SubSeq(t, i + 1, i + Len(s)) = s

OccursIn(t, s) == \E i \in 0..Len(t) : Occurs(t, s, i)

FirstOccurrence(t, s) == CHOOSE i \in 0..Len(t) : Occurs(t, s, i) /\ \A j \in 0..(i - 1) : ~Occurs(t, s, j)

\* t with the span [lo, hi) replaced by r.
Spliced(t, lo, hi, r) == SubSeq(t, 1, lo) \o r \o SubSeq(t, hi + 1, Len(t))

\* t with every occurrence of the non-empty s, left to right and not
\* overlapping, replaced by r; and the number of those occurrences.
RECURSIVE EachReplaced(_, _, _)
EachReplaced(t, s, r) ==
  IF Len(t) < Len(s) THEN t
  ELSE IF SubSeq(t, 1, Len(s)) = s
  THEN r \o EachReplaced(SubSeq(t, Len(s) + 1, Len(t)), s, r)
  ELSE <<t[1]>> \o EachReplaced(Tail(t), s, r)

RECURSIVE Occurrences(_, _)
Occurrences(t, s) ==
  IF Len(t) < Len(s) THEN 0
  ELSE IF SubSeq(t, 1, Len(s)) = s
  THEN 1 + Occurrences(SubSeq(t, Len(s) + 1, Len(t)), s)
  ELSE Occurrences(Tail(t), s)

\* C16: with an empty or whitespace-only search fragment the result is the
\* document, then a newline exactly when the document does not end with
\* one, then the replacement, with success, whatever the other arguments.
C16_BlankSearchAppends ==
  \A p \in Procs :
    (Done(p, "edit") /\ Blank(SearchOf(p)))
    => /\ EditOf(p).ok
       /\ EditOf(p).text =
            DocOf(p)
            \o (IF Len(DocOf(p)) > 0 /\ DocOf(p)[Len(DocOf(p))] = NL THEN <<>> ELSE <<NL>>)
            \o ReplacementOf(p)

C16_Witness ==
  \E p \in Procs :
    /\ Done(p, "edit")
    /\ SearchOf(p) = <<SP, NL>>
    /\ DocOf(p) = <<"a", NL>>
    /\ ~frame[p].args.replace_all /\ ~frame[p].args.allow_partial_matches
    /\ EditOf(p).text = <<"a", NL, "x">>

\* The first occurrence of the search fragment was replaced.
FirstOccurrenceReplaced(p) ==
  /\ EditOf(p).ok
  /\ EditOf(p).text =
       Spliced(DocOf(p), FirstOccurrence(DocOf(p), SearchOf(p)),
               FirstOccurrence(DocOf(p), SearchOf(p)) + Len(SearchOf(p)),
               ReplacementOf(p))
  /\ Len(EditOf(p).text) = Len(DocOf(p)) - Len(SearchOf(p)) + Len(ReplacementOf(p))

\* C17: for every S that is a substring of T, replace_all=false replaces
\* exactly the first occurrence of S and the result has length
\* len(T) - len(S) + len(R).
C17_FirstOccurrenceReplaced ==
  \A p \in Procs :
    (/\ Done(p, "edit")
     /\ OccursIn(DocOf(p), SearchOf(p))
     /\ ~frame[p].args.replace_all)
    => FirstOccurrenceReplaced(p)

\* C17, amended: the same for every S that is a substring of T and is not
\* empty or whitespace only.
C17_FirstOccurrenceOfNonBlankReplaced ==
  \A p \in Procs :
    (/\ Done(p, "edit")
     /\ OccursIn(DocOf(p), SearchOf(p))
     /\ ~Blank(SearchOf(p))
     /\ ~frame[p].args.replace_all)
    => FirstOccurrenceReplaced(p)

C17_Witness ==
  \E p \in Procs :
    /\ Done(p, "edit")
    /\ ~frame[p].args.replace_all
    /\ DocOf(p) = <<"A", "a", "a">> /\ SearchOf(p) = <<"a">>
    /\ ReplacementOf(p) = <<"a", "a">>
    /\ EditOf(p).text = <<"A", "a", "a", "a">>

\* C18: when the locator returns no candidate for a non-empty search
\* fragment, the document is returned unchanged with success false and the
\* error kind no_matches_found.
C18_NoCandidateLeavesDocument ==
  \A p \in Procs :
    (/\ Done(p, "edit")
     /\ ~Blank(SearchOf(p))
     /\ CandidatesOf(p) = <<>>)
    => /\ ~EditOf(p).ok
       /\ EditOf(p).text = DocOf(p)
       /\ EditOf(p).debug.error = "no_matches_found"

C18_Witness ==
  \E p \in Procs :
    /\ Done(p, "edit")
    /\ SearchOf(p) = <<"z">> /\ Len(DocOf(p)) = 3
    /\ frame[p].args.allow_partial_matches
    /\ ~EditOf(p).ok

\* C19: when the matched text of the best candidate does not occur
\* literally in the document, the candidate's span [start, end) is what
\* the replacement replaces, with success, whatever replace_all says.
C19_FuzzySpanReplaced ==
  \A p \in Procs :
    (/\ Done(p, "edit")
     /\ ~Blank(SearchOf(p))
     /\ CandidatesOf(p) # <<>>
     /\ ~OccursIn(DocOf(p), CandidatesOf(p)[1].text))
    => /\ EditOf(p).ok
       /\ EditOf(p).text =
            Spliced(DocOf(p), CandidatesOf(p)[1].start_pos,
                    CandidatesOf(p)[1].end_pos, ReplacementOf(p))

\* C20: with replace_all, when the matched text of the best candidate
\* occurs literally in the document, every non-overlapping occurrence of
\* it is replaced and replaced_count is their number, at least 1.
C20_EveryOccurrenceReplaced ==
  \A p \in Procs :
    (/\ Done(p, "edit")
     /\ ~Blank(SearchOf(p))
     /\ frame[p].args.replace_all
     /\ CandidatesOf(p) # <<>>
     /\ OccursIn(DocOf(p), CandidatesOf(p)[1].text))
    => /\ EditOf(p).ok
       /\ EditOf(p).text =
            EachReplaced(DocOf(p), CandidatesOf(p)[1].text, ReplacementOf(p))
       /\ EditOf(p).debug.replaced_count =
            Occurrences(DocOf(p), CandidatesOf(p)[1].text)
       /\ EditOf(p).debug.replaced_count >= 1

C20_Witness ==
  \E p \in Procs :
    /\ Done(p, "edit")
    /\ frame[p].args.replace_all
    /\ DocOf(p) = <<"a", "a", "a">> /\ SearchOf(p) = <<"a", "a">>
    /\ ReplacementOf(p) = <<"x">>
    /\ EditOf(p).text = <<"x", "a">>
    /\ EditOf(p).debug.replaced_count = 1

(***************************************************************************)
(* Properties of apply_diff_blocks.  For a returned call of caller p: the  *)
(* blocks, what was returned, and the single edits block by block.         *)
(***************************************************************************)
BlocksOf(p) == frame[p].inputs[1].blocks
ApplyAllOf(p) == frame[p].returned[1]

\* apply_diff_edit of one block on a text, with the arguments of the call.
SingleOn(p, text, blk) ==
  apply_diff_edit(text, blk.search, blk.replace, frame[p].args.similarity_threshold,
                  frame[p].args.allow_partial_matches, frame[p].args.replace_all)

\* The text a block leaves: its edit, or the text before it when it fails.
EditedOr(before, r) == IF r.ok THEN r.text ELSE before

\* The text block n of the call leaves of the text before it.
TextOfBlock(p, n, before) == EditedOr(before, SingleOn(p, before, BlocksOf(p)[n]))

\* The documents before the first block and after each of the first n
\* blocks of the call, in order.
RECURSIVE TextsAfter(_, _)
ExtendTexts(p, n, texts) == Append(texts, TextOfBlock(p, n, texts[n]))

TextsAfter(p, n) ==
  IF n = 0 THEN << DocOf(p) >> ELSE ExtendTexts(p, n, TextsAfter(p, n - 1))

\* The blocks that fail on the document the blocks before them produced.
FailingBlocks(p, texts) ==
  { n \in 1..Len(BlocksOf(p)) : ~SingleOn(p, texts[n], BlocksOf(p)[n]).ok }

\* One record per block, in order, and one warning per failing block.
RecordsEachBlock(p, failing) ==
  /\ Len(ApplyAllOf(p).block_results) = Len(BlocksOf(p))
  /\ \A n \in 1..Len(BlocksOf(p)) :
       /\ ApplyAllOf(p).block_results[n].index = n
       /\ ApplyAllOf(p).block_results[n].success = (n \notin failing)
  /\ Len(ApplyAllOf(p).warnings) = Cardinality(failing)
  /\ { ApplyAllOf(p).warnings[i].index : i \in 1..Len(ApplyAllOf(p).warnings) } = failing

AppliedInOrder(p, texts) ==
  /\ ApplyAllOf(p).text = texts[Len(BlocksOf(p)) + 1]
  /\ RecordsEachBlock(p, FailingBlocks(p, texts))

\* C21: the blocks are applied in extraction order, each to the document
\* the block before it produced; a failing block leaves the document as it
\* was, adds one warning, and the later blocks are still attempted; there
\* is exactly one diagnostic record per block.
C21_BlocksAppliedInOrder ==
  \A p \in Procs :
    Done(p, "apply_all") => AppliedInOrder(p, TextsAfter(p, Len(BlocksOf(p))))

\* A failing block between two that succeed, the last of which matches only
\* what the first one wrote.
C21_Witness ==
  \E p \in Procs :
    /\ Done(p, "apply_all")
    /\ DocOf(p) = <<"a">>
    /\ Len(BlocksOf(p)) = 3
    /\ BlocksOf(p)[1].search = <<"a">>
    /\ BlocksOf(p)[2].search = <<"z">>
    /\ BlocksOf(p)[3].search = <<"x">>
    /\ ApplyAllOf(p).text = <<"a", "a">>
    /\ Len(ApplyAllOf(p).warnings) = 1
    /\ ApplyAllOf(p).warnings[1].index = 2
    /\ Len(ApplyAllOf(p).block_results) = 3

(***************************************************************************)
(* Properties of find_fuzzy_matches.  For a returned call of caller p: the *)
(* strategies enabled and the candidates returned (the document and the    *)
(* search fragment are DocOf and SearchOf).                                *)
(***************************************************************************)
MethodsOf(p) == frame[p].inputs[1].methods
LocatedOf(p) == frame[p].returned[1]

\* The document has the line ln.
HasLine(doc, ln) == \E i \in 1..Len(SplitLines(doc)) : SplitLines(doc)[i] = ln

\* C22: for a document containing the line "  Hello,   World  " and the
\* search fragment "Hello, World", with only the normalized strategy
\* enabled and threshold 0.8, a candidate of kind normalized with
\* similarity 0.95 is returned.
C22_NormalizedFindsSpacedLine ==
  \A p \in Procs :
    (/\ Done(p, "locate")
     /\ HasLine(DocOf(p), HelloLine)
     /\ SearchOf(p) = HelloWorld
     /\ MethodsOf(p) = {"normalized"}
     /\ frame[p].args.similarity_threshold = Frac(4, 5))
    => \E i \in 1..Len(LocatedOf(p)) :
         /\ LocatedOf(p)[i].match_type = "normalized"
         /\ FracEq(LocatedOf(p)[i].similarity, Frac(19, 20))

\* C24: with the exact strategy enabled and the search fragment a literal
\* substring of the document, exactly one candidate is returned: kind
\* exact, similarity 1.0, the fragment as text, the offsets of its first
\* occurrence.
C24_ExactShortCircuits ==
  \A p \in Procs :
    (/\ Done(p, "locate")
     /\ "exact" \in MethodsOf(p)
     /\ OccursIn(DocOf(p), SearchOf(p)))
    => /\ Len(LocatedOf(p)) = 1
       /\ LocatedOf(p)[1].match_type = "exact"
       /\ LocatedOf(p)[1].strategy = "exact"
       /\ LocatedOf(p)[1].similarity = One
       /\ LocatedOf(p)[1].text = SearchOf(p)
       /\ LocatedOf(p)[1].start_pos = FirstOccurrence(DocOf(p), SearchOf(p))
       /\ LocatedOf(p)[1].end_pos = LocatedOf(p)[1].start_pos + Len(SearchOf(p))

\* The fragment occurs twice, and the later strategies would find it too.
C24_Witness ==
  \E p \in Procs :
    /\ Done(p, "locate")
    /\ MethodsOf(p) = AllMethods
    /\ DocOf(p) = <<"A", "a", "a">> /\ SearchOf(p) = <<"a">>
    /\ Len(LocatedOf(p)) = 1
    /\ LocatedOf(p)[1].start_pos = 1
    /\ LocatedOf(p)[1].match_type = "exact"

\* The place of a strategy in the order of discovery.
DiscoveryRank(strategy) ==
  CASE strategy = "exact" -> 0
    [] strategy = "normalized" -> 1
    [] strategy = "multiline" -> 2
    [] strategy = "single_line" -> 3
    [] strategy = "token" -> 4

\* Candidate c was discovered before candidate d: by an earlier strategy,
\* or by the sliding window at a line further up.
DiscoveredBefore(c, d) ==
  \/ DiscoveryRank(c.strategy) < DiscoveryRank(d.strategy)
  \/ /\ c.strategy = "multiline" /\ d.strategy = "multiline"
     /\ c.start_pos < d.start_pos

\* C25: the candidates returned are sorted by non-increasing similarity and
\* candidates of equal similarity stay in discovery order, so the first
\* one, which apply_diff_edit acts on, is the earliest discovered of those
\* with the greatest similarity.
C25_SortedTiesInDiscoveryOrder ==
  \A p \in Procs :
    Done(p, "locate")
    => \A i, j \in 1..Len(LocatedOf(p)) :
         i < j => /\ FracGeq(LocatedOf(p)[i].similarity, LocatedOf(p)[j].similarity)
                  /\ FracEq(LocatedOf(p)[i].similarity, LocatedOf(p)[j].similarity)
                       => DiscoveredBefore(LocatedOf(p)[i], LocatedOf(p)[j])

\* The normalized candidate, found first, sorted after two that tie above it.
C25_Witness ==
  \E p \in Procs :
    /\ Done(p, "locate")
    /\ DocOf(p) = <<"a">> /\ SearchOf(p) = <<"a", SP>>
    /\ Len(LocatedOf(p)) = 3
    /\ LocatedOf(p)[1].strategy = "single_line"
    /\ LocatedOf(p)[2].strategy = "token"
    /\ LocatedOf(p)[3].strategy = "normalized"
    /\ FracEq(LocatedOf(p)[1].similarity, LocatedOf(p)[2].similarity)

\* C26: every candidate returned is a span of the searched document:
\* 0 <= start <= end <= len(document) and document[start:end] is the
\* candidate's text, for every strategy.
C26_CandidatesAreSpans ==
  \A p \in Procs :
    Done(p, "locate")
    => \A i \in 1..Len(LocatedOf(p)) :
         /\ 0 <= LocatedOf(p)[i].start_pos
         /\ LocatedOf(p)[i].start_pos <= LocatedOf(p)[i].end_pos
         /\ LocatedOf(p)[i].end_pos <= Len(DocOf(p))
         /\ Slice(DocOf(p), LocatedOf(p)[i].start_pos, LocatedOf(p)[i].end_pos)
              = LocatedOf(p)[i].text

(***************************************************************************)
(* Properties of calculate_similarity.  For the calls of caller p: the two *)
(* strings, the method, and the scores of the pair and of the pair         *)
(* swapped.                                                                *)
(***************************************************************************)
PairOf(p) == frame[p].inputs[1]
ForwardOf(p) == frame[p].returned[1]
BackwardOf(p) == frame[p].returned[2]

\* C23: similarity is symmetric for the ratio and token_set methods:
\* similarity(a, b, m) = similarity(b, a, m) for all strings a and b.
C23_SimilaritySymmetric ==
  \A p \in Procs :
    (Done(p, "similarity") /\ PairOf(p).method \in {"ratio", "token_set"})
    => FracEq(ForwardOf(p), BackwardOf(p))

\* C23, amended: similarity is symmetric for the token_set method; ratio is
\* twice the total length of the matching blocks, found from the first
\* string's side, divided by len(a)+len(b), so the two orders share the
\* denominator and each score lies between 0 and 1.
C23_TokenSetSymmetric ==
  \A p \in Procs :
    Done(p, "similarity")
    => /\ PairOf(p).method = "token_set" => FracEq(ForwardOf(p), BackwardOf(p))
       /\ (PairOf(p).method = "ratio" /\ Len(PairOf(p).a) > 0 /\ Len(PairOf(p).b) > 0)
          => /\ ForwardOf(p).d = Len(PairOf(p).a) + Len(PairOf(p).b)
             /\ BackwardOf(p).d = ForwardOf(p).d
             /\ ForwardOf(p).n % 2 = 0 /\ BackwardOf(p).n % 2 = 0
             /\ ForwardOf(p).n \in 0..ForwardOf(p).d
             /\ BackwardOf(p).n \in 0..BackwardOf(p).d

\* Token sets of different sizes that overlap, scored the same both ways.
C23_Witness ==
  \E p \in Procs :
    /\ Done(p, "similarity")
    /\ PairOf(p).method = "token_set"
    /\ PairOf(p).a = <<"a", SP, "a", SP, "c">>
    /\ PairOf(p).b = <<"B", SP, "a">>
    /\ ForwardOf(p) = Frac(1, 2)
    /\ BackwardOf(p) = Frac(1, 2)

(***************************************************************************)
(* Properties of the write-through entry points and their archives.        *)
(***************************************************************************)
\* C27: a file_diff_write call that creates a new version also writes new
\* content to the live file, so a call that fails (no blocks, no match, zero
\* changes, bad arguments) leaves the set of archived versions unchanged.
C27_ArchiveOnlyWithWrite ==
  \A p \in Procs :
    Done(p, "write")
    => /\ frame[p].backup_info # None => frame[p].wrote
       /\ ~frame[p].result.success => archives = frame[p].pre_archives

\* The archive f holds what the call of p found in the live file, carries
\* the highest version number, and is what a restore to that number copies.
UndoneBy(p, f) ==
  /\ f.content = frame[p].pre_live.content
  /\ VersionOf(f) = SetMax(ArchiveVersions(archives))
  /\ \A versions \in get_file_versions(live, archives) :
       /\ ~restore_file_version(versions, VersionOf(f)).raised
       /\ restore_file_version(versions, VersionOf(f)).path = f.name

\* C30: a successful file_diff_restore with create_backup=true is undoable:
\* an archive created by the call, with the highest version number, holds
\* the live content as it was just before the restore, and restoring that
\* number brings it back.
C30_RestoreUndoable ==
  \A p \in Procs :
    (/\ Done(p, "restore")
     /\ frame[p].result.success
     /\ frame[p].args.create_backup)
    => \E f \in archives \ frame[p].pre_archives : UndoneBy(p, f)

(***************************************************************************)
(* Properties of apply_diff_edit and the candidate it substitutes: the     *)
(* first of the candidates the call kept in its diagnostics.               *)
(***************************************************************************)
ThresholdOf(p) == frame[p].args.similarity_threshold
BestOf(p) == EditOf(p).debug.match_details[1]

\* No candidate kept by the call reaches the threshold.
NoneClears(p) ==
  \A i \in 1..Len(EditOf(p).debug.match_details) :
    ~FracGeq(EditOf(p).debug.match_details[i].similarity, ThresholdOf(p))

NoMatchFailure(p) ==
  /\ ~EditOf(p).ok
  /\ EditOf(p).text = DocOf(p)
  /\ EditOf(p).debug.error = "no_matches_found"

\* C28: apply_diff_edit succeeds on a non-empty search fragment only if the
\* candidate it substitutes has similarity >= the threshold of the call;
\* when no candidate clears the threshold the outcome is the no-match
\* failure.
C28_BestClearsThreshold ==
  \A p \in Procs :
    (Done(p, "edit") /\ ~Blank(SearchOf(p)))
    => /\ EditOf(p).ok => /\ EditOf(p).debug.matches_found > 0
                          /\ FracGeq(BestOf(p).similarity, ThresholdOf(p))
       /\ NoneClears(p) => NoMatchFailure(p)

\* max(0.6, threshold - 0.2)
RelaxedFloor(threshold) ==
  IF FracGeq(Frac(3, 5), Frac(5 * threshold.n - threshold.d, 5 * threshold.d))
  THEN Frac(3, 5)
  ELSE Frac(5 * threshold.n - threshold.d, 5 * threshold.d)

\* C28, amended: apply_diff_edit succeeds on a non-empty search fragment
\* only if the locator returned a candidate, and the one it substitutes has
\* similarity >= the threshold or is a normalized candidate (similarity
\* 0.95) or a single-line candidate with similarity
\* >= max(0.6, threshold - 0.2); when the locator returns no candidate the
\* outcome is the no-match failure.
C28_BestClearsItsFloor ==
  \A p \in Procs :
    (Done(p, "edit") /\ ~Blank(SearchOf(p)))
    => /\ EditOf(p).ok
          => /\ EditOf(p).debug.matches_found > 0
             /\ \/ FracGeq(BestOf(p).similarity, ThresholdOf(p))
                \/ /\ BestOf(p).match_type = "normalized"
                   /\ FracEq(BestOf(p).similarity, Frac(19, 20))
                \/ /\ BestOf(p).match_type = "fuzzy_single_line"
                   /\ FracGeq(BestOf(p).similarity, RelaxedFloor(ThresholdOf(p)))
       /\ EditOf(p).debug.matches_found = 0 => NoMatchFailure(p)

\* A line with ratio 2/3 substituted under the threshold 0.8.
C28_Witness ==
  \E p \in Procs :
    /\ Done(p, "edit")
    /\ DocOf(p) = <<"a", NL, "A">> /\ SearchOf(p) = <<"a", "a">>
    /\ ThresholdOf(p) = Frac(4, 5)
    /\ EditOf(p).ok
    /\ BestOf(p).match_type = "fuzzy_single_line"
    /\ FracEq(BestOf(p).similarity, Frac(2, 3))
    /\ ReplacementOf(p) = <<"x">> /\ EditOf(p).text = <<"x", NL, "A">>

\* C29: when apply_diff_edit succeeds with replace_all=false on a non-empty
\* search fragment, only the span [start, end) of the best candidate
\* changes: the document before start and after end is left as it was.
C29_OnlyBestSpanChanges ==
  \A p \in Procs :
    (/\ Done(p, "edit")
     /\ ~Blank(SearchOf(p))
     /\ ~frame[p].args.replace_all
     /\ EditOf(p).ok)
    => /\ Len(EditOf(p).text) >= BestOf(p).start_pos + Len(DocOf(p)) - BestOf(p).end_pos
       /\ Slice(EditOf(p).text, 0, BestOf(p).start_pos)
            = Slice(DocOf(p), 0, BestOf(p).start_pos)
       /\ Slice(EditOf(p).text,
                Len(EditOf(p).text) - (Len(DocOf(p)) - BestOf(p).end_pos),
                Len(EditOf(p).text))
            = Slice(DocOf(p), BestOf(p).end_pos, Len(DocOf(p)))

====
